---- MODULE Spec2Model ----
(***************************************************************************)
(* Navihive: the Cloudflare Worker API (auth gate, token service, order    *)
(* sync) modelled as a state machine.  Text is a sequence of character     *)
(* codes, so that base64 and JSON are computed as the platform computes    *)
(* them.                                                                   *)
(***************************************************************************)
EXTENDS Integers, Sequences, FiniteSets, TLC

(***************************************************************************)
(* Text: character codes of the printable ASCII range 32..126 (the grave   *)
(* accent, code 96, is spelled GRAVE).                                     *)
(***************************************************************************)
Ascii ==
  <<
    " ", "!", "\"", "#", "$", "%", "&", "'", "(", ")", "*", "+", ",", "-", ".", "/",
    "0", "1", "2", "3", "4", "5", "6", "7", "8", "9", ":", ";", "<", "=", ">", "?",
    "@", "A", "B", "C", "D", "E", "F", "G", "H", "I", "J", "K", "L", "M", "N", "O",
    "P", "Q", "R", "S", "T", "U", "V", "W", "X", "Y", "Z", "[", "\\", "]", "^", "_",
    "GRAVE", "a", "b", "c", "d", "e", "f", "g", "h", "i", "j", "k", "l", "m", "n", "o",
    "p", "q", "r", "s", "t", "u", "v", "w", "x", "y", "z", "{", "|", "}", "~" >>

Code(c) == 31 + (CHOOSE i \in 1..Len(Ascii) : Ascii[i] = c)

T(s) == [i \in 1..Len(s) |-> Code(s[i])]

Range(s) == {s[i] : i \in 1..Len(s)}

QUOTE == Code("\"")
BACKSLASH == Code("\\")
SPACE == Code(" ")
DOT == Code(".")
MINUS == Code("-")
PLUS == Code("+")
SLASH == Code("/")
UNDERSCORE == Code("_")
EQUALS == Code("=")
ZERO == Code("0")
LBRACE == Code("{")
RBRACE == Code("}")
COLON == Code(":")
COMMA == Code(",")

IsDigit(c) == c >= ZERO /\ c <= ZERO + 9

\* s.replace(/x/g, y) for single characters x, y
ReplaceAll(s, x, y) == [i \in 1..Len(s) |-> IF s[i] = x THEN y ELSE s[i]]

\* s.replace(/=+$/, "")
RECURSIVE StripPad(_)
StripPad(s) ==
  IF Len(s) > 0 /\ s[Len(s)] = EQUALS THEN StripPad(SubSeq(s, 1, Len(s) - 1)) ELSE s

\* s.split(sep): the pieces of s between the occurrences of the character sep
SepAt(s, sep) == {i \in 1..Len(s) : s[i] = sep}

\* the position of the k-th member of seps; 0 for k = 0, n + 1 past the last
NthSep(seps, n, k) ==
  IF k = 0 THEN 0
  ELSE IF k > Cardinality(seps) THEN n + 1
  ELSE CHOOSE p \in seps : Cardinality({q \in seps : q < p}) = k - 1

Split(s, sep) ==
  LET seps == SepAt(s, sep)
  IN  [k \in 1..(Cardinality(seps) + 1) |->
         SubSeq(s, NthSep(seps, Len(s), k - 1) + 1, NthSep(seps, Len(s), k) - 1)]

(***************************************************************************)
(* btoa / atob (WHATWG forgiving-base64).                                  *)
(***************************************************************************)
B64Chars == T(<<"A", "B", "C", "D", "E", "F", "G", "H", "I", "J", "K", "L", "M", "N", "O", "P", "Q", "R", "S", "T", "U", "V", "W", "X", "Y", "Z", "a", "b", "c", "d", "e", "f", "g", "h", "i", "j", "k", "l", "m", "n", "o", "p", "q", "r", "s", "t", "u", "v", "w", "x", "y", "z", "0", "1", "2", "3", "4", "5", "6", "7", "8", "9", "+", "/">>)

IsB64(c) == \E i \in 1..64 : B64Chars[i] = c

B64Index(c) == (CHOOSE i \in 1..64 : B64Chars[i] = c) - 1

\* the k-th sextet (k = 0..3) of the group of bytes b1 b2 b3
Sextet(b1, b2, b3, k) ==
  CASE k = 0 -> b1 \div 4
    [] k = 1 -> (b1 % 4) * 16 + (b2 \div 16)
    [] k = 2 -> (b2 % 16) * 4 + (b3 \div 64)
    [] k = 3 -> b3 % 64

ByteAt(s, i) == IF i <= Len(s) THEN s[i] ELSE 0

\* btoa(s): throws InvalidCharacterError when s has a code above 0xFF
btoa(s) ==
  IF \E i \in 1..Len(s) : s[i] > 255
  THEN [ok |-> FALSE, v |-> <<>>]
  ELSE [ok |-> TRUE,
        v |-> [j \in 1..(4 * ((Len(s) + 2) \div 3)) |->
                LET g == (j - 1) \div 4
                    k == (j - 1) % 4
                    \* a sextet with no input byte behind it is padding
                    covered == 3 * g + (IF k = 0 THEN 1 ELSE k) <= Len(s)
                IN  IF covered
                    THEN B64Chars[Sextet(ByteAt(s, 3*g + 1), ByteAt(s, 3*g + 2),
                                         ByteAt(s, 3*g + 3), k) + 1]
                    ELSE EQUALS]]

\* the sextets c1..c4 of a group give byte k (k = 0..2)
Octet(c1, c2, c3, c4, k) ==
  CASE k = 0 -> c1 * 4 + (c2 \div 16)
    [] k = 1 -> (c2 % 16) * 16 + (c3 \div 4)
    [] k = 2 -> (c3 % 4) * 64 + c4

SextetAt(s, i) == IF i <= Len(s) THEN B64Index(s[i]) ELSE 0

\* atob(s): throws on a character outside the alphabet or a length of 4n+1
atob(s) ==
  LET nows == SelectSeq(s, LAMBDA c : c # SPACE)
      d == IF Len(nows) % 4 = 0 /\ Len(nows) >= 1 /\ nows[Len(nows)] = EQUALS
           THEN IF Len(nows) >= 2 /\ nows[Len(nows) - 1] = EQUALS
                THEN SubSeq(nows, 1, Len(nows) - 2)
                ELSE SubSeq(nows, 1, Len(nows) - 1)
           ELSE nows
      n == Len(d)
  IN  IF n % 4 = 1 \/ \E i \in 1..n : ~IsB64(d[i])
      THEN [ok |-> FALSE, v |-> <<>>]
      ELSE [ok |-> TRUE,
            v |-> [j \in 1..((n * 3) \div 4) |->
                    LET g == (j - 1) \div 3
                        k == (j - 1) % 3
                    IN  Octet(SextetAt(d, 4*g + 1), SextetAt(d, 4*g + 2),
                              SextetAt(d, 4*g + 3), SextetAt(d, 4*g + 4), k)]]

(***************************************************************************)
(* JSON values.  One record shape for every value: t is the type, n the    *)
(* number, s the string, m the members (<<key, value>> pairs of an object, *)
(* elements of an array).                                                  *)
(***************************************************************************)
JVal(t, n, s, m) == [t |-> t, n |-> n, s |-> s, m |-> m]
JUndef == JVal("undefined", 0, <<>>, <<>>)
JNull == JVal("null", 0, <<>>, <<>>)
JBool(b) == JVal(IF b THEN "true" ELSE "false", 0, <<>>, <<>>)
JNum(n) == JVal("number", n, <<>>, <<>>)
JStr(s) == JVal("string", 0, s, <<>>)
JObj(m) == JVal("object", 0, <<>>, m)
JArr(m) == JVal("array", 0, <<>>, m)

\* String(n) for an integer n
RECURSIVE Digits(_)
Digits(n) == IF n < 10 THEN <<ZERO + n>> ELSE Append(Digits(n \div 10), ZERO + (n % 10))

NumToText(n) == IF n < 0 THEN <<MINUS>> \o Digits(0 - n) ELSE Digits(n)

\* JSON.stringify of a string: quotes and backslashes are escaped
RECURSIVE Escape(_)
Escape(s) ==
  IF Len(s) = 0 THEN <<>>
  ELSE (IF s[1] = QUOTE \/ s[1] = BACKSLASH THEN <<BACKSLASH, s[1]>> ELSE <<s[1]>>)
       \o Escape(Tail(s))

QuoteText(s) == <<QUOTE>> \o Escape(s) \o <<QUOTE>>

\* JSON.stringify(v): no white space, members in insertion order
RECURSIVE Stringify(_), StringifyMembers(_), StringifyElements(_)
Stringify(v) ==
  CASE v.t = "number" -> NumToText(v.n)
    [] v.t = "string" -> QuoteText(v.s)
    [] v.t = "object" -> <<LBRACE>> \o StringifyMembers(v.m) \o <<RBRACE>>
    [] v.t = "array" -> T(<<"[">>) \o StringifyElements(v.m) \o T(<<"]">>)
    [] OTHER -> T(CASE v.t = "true" -> <<"t", "r", "u", "e">>
                    [] v.t = "false" -> <<"f", "a", "l", "s", "e">>
                    [] OTHER -> <<"n", "u", "l", "l">>)

StringifyMembers(m) ==
  IF Len(m) = 0 THEN <<>>
  ELSE QuoteText(m[1][1]) \o <<COLON>> \o Stringify(m[1][2])
       \o (IF Len(m) > 1 THEN <<COMMA>> \o StringifyMembers(Tail(m)) ELSE <<>>)

StringifyElements(m) ==
  IF Len(m) = 0 THEN <<>>
  ELSE Stringify(m[1])
       \o (IF Len(m) > 1 THEN <<COMMA>> \o StringifyElements(Tail(m)) ELSE <<>>)

(***************************************************************************)
(* JSON.parse.  A parse result is [ok, v, next]: next is the index after   *)
(* the value.  The grammar is JSON without fractions, exponents and the    *)
(* escapes other than \" \\ \/ ; white space is the space character.       *)
(***************************************************************************)
PFail == [ok |-> FALSE, v |-> JUndef, next |-> 0]
POk(v, next) == [ok |-> TRUE, v |-> v, next |-> next]

RECURSIVE SkipWs(_, _)
SkipWs(s, i) == IF i <= Len(s) /\ s[i] = SPACE THEN SkipWs(s, i + 1) ELSE i

At(s, i, c) == i <= Len(s) /\ s[i] = c

RECURSIVE ScanString(_, _, _)
ScanString(s, j, acc) ==
  IF j > Len(s) THEN PFail
  ELSE IF s[j] = QUOTE THEN POk(JStr(acc), j + 1)
  ELSE IF s[j] = BACKSLASH
       THEN IF j + 1 <= Len(s) /\ s[j + 1] \in {QUOTE, BACKSLASH, SLASH}
            THEN ScanString(s, j + 2, Append(acc, s[j + 1]))
            ELSE PFail
  ELSE IF s[j] < 32 THEN PFail
  ELSE ScanString(s, j + 1, Append(acc, s[j]))

ParseString(s, i) == IF At(s, i, QUOTE) THEN ScanString(s, i + 1, <<>>) ELSE PFail

\* the digits s[j..], accumulated into n; a run beyond the integer range of
\* the model saturates at 2147483647
RECURSIVE ScanDigits(_, _, _)
ScanDigits(s, j, n) ==
  IF j <= Len(s) /\ IsDigit(s[j])
  THEN ScanDigits(s, j + 1,
                  IF n >= 214748364 THEN 2147483647 ELSE n * 10 + (s[j] - ZERO))
  ELSE [n |-> n, next |-> j]

ParseNumber(s, i) ==
  LET neg == At(s, i, MINUS)
      j == IF neg THEN i + 1 ELSE i
  IN  IF ~(j <= Len(s) /\ IsDigit(s[j])) THEN PFail
      ELSE LET d == IF s[j] = ZERO THEN [n |-> 0, next |-> j + 1]
                    ELSE ScanDigits(s, j, 0)
           IN  IF d.next <= Len(s) /\ s[d.next] \in {DOT, Code("e"), Code("E")}
               THEN PFail
               ELSE POk(JNum(IF neg THEN 0 - d.n ELSE d.n), d.next)

StartsWith(s, i, w) ==
  i + Len(w) - 1 <= Len(s) /\ \A k \in 1..Len(w) : s[i + k - 1] = w[k]

TrueText == T(<<"t", "r", "u", "e">>)
FalseText == T(<<"f", "a", "l", "s", "e">>)
NullText == T(<<"n", "u", "l", "l">>)

RECURSIVE ParseValue(_, _), ParseMembers(_, _, _), ParseElements(_, _, _)
ParseValue(s, i) ==
  IF i > Len(s) THEN PFail
  ELSE IF s[i] = QUOTE THEN ParseString(s, i)
  ELSE IF s[i] = MINUS \/ IsDigit(s[i]) THEN ParseNumber(s, i)
  ELSE IF StartsWith(s, i, TrueText) THEN POk(JBool(TRUE), i + 4)
  ELSE IF StartsWith(s, i, FalseText) THEN POk(JBool(FALSE), i + 5)
  ELSE IF StartsWith(s, i, NullText) THEN POk(JNull, i + 4)
  ELSE IF s[i] = LBRACE
       THEN LET j == SkipWs(s, i + 1)
            IN  IF At(s, j, RBRACE) THEN POk(JObj(<<>>), j + 1)
                ELSE ParseMembers(s, j, <<>>)
  ELSE IF s[i] = Code("[")
       THEN LET j == SkipWs(s, i + 1)
            IN  IF At(s, j, Code("]")) THEN POk(JArr(<<>>), j + 1)
                ELSE ParseElements(s, j, <<>>)
  ELSE PFail

\* i is at the key of the next member
ParseMembers(s, i, acc) ==
  LET k == ParseString(s, i)
  IN  IF ~k.ok THEN PFail
      ELSE LET c == SkipWs(s, k.next)
           IN  IF ~At(s, c, COLON) THEN PFail
               ELSE LET v == ParseValue(s, SkipWs(s, c + 1))
                    IN  IF ~v.ok THEN PFail
                        ELSE LET e == SkipWs(s, v.next)
                                 acc2 == Append(acc, <<k.v.s, v.v>>)
                             IN  IF At(s, e, RBRACE) THEN POk(JObj(acc2), e + 1)
                                 ELSE IF At(s, e, COMMA)
                                      THEN ParseMembers(s, SkipWs(s, e + 1), acc2)
                                      ELSE PFail

\* i is at the next element
ParseElements(s, i, acc) ==
  LET v == ParseValue(s, i)
  IN  IF ~v.ok THEN PFail
      ELSE LET e == SkipWs(s, v.next)
               acc2 == Append(acc, v.v)
           IN  IF At(s, e, Code("]")) THEN POk(JArr(acc2), e + 1)
               ELSE IF At(s, e, COMMA) THEN ParseElements(s, SkipWs(s, e + 1), acc2)
               ELSE PFail

\* JSON.parse(s): throws SyntaxError unless s is one value between white space
JsonParse(s) ==
  LET v == ParseValue(s, SkipWs(s, 1))
  IN  IF v.ok /\ SkipWs(s, v.next) = Len(s) + 1
      THEN [ok |-> TRUE, v |-> v.v]
      ELSE [ok |-> FALSE, v |-> JUndef]

(***************************************************************************)
(* The JavaScript operators the token check applies to a parsed value.     *)
(***************************************************************************)
\* v[key] for v not null/undefined: the last member named key, else undefined
RECURSIVE Lookup(_, _, _)
Lookup(m, key, i) ==
  IF i = 0 THEN JUndef
  ELSE IF m[i][1] = key THEN m[i][2]
  ELSE Lookup(m, key, i - 1)

Prop(v, key) == IF v.t = "object" THEN Lookup(v.m, key, Len(v.m)) ELSE JUndef

\* ToBoolean(v)
Truthy(v) ==
  CASE v.t \in {"undefined", "null", "false"} -> FALSE
    [] v.t = "number" -> v.n # 0
    [] v.t = "string" -> Len(v.s) > 0
    [] OTHER -> TRUE

NaN == [nan |-> TRUE, n |-> 0]
Num(n) == [nan |-> FALSE, n |-> n]

\* Number(s) for a string: white space trimmed, "" is 0, a signed digit run is
\* its value, anything else NaN
RECURSIVE TrimRight(_)
TrimRight(s) ==
  IF Len(s) > 0 /\ s[Len(s)] = SPACE THEN TrimRight(SubSeq(s, 1, Len(s) - 1)) ELSE s

StrToNum(s0) ==
  LET s == TrimRight(SubSeq(s0, SkipWs(s0, 1), Len(s0)))
      signed == Len(s) > 0 /\ s[1] \in {MINUS, PLUS}
      j == IF signed THEN 2 ELSE 1
      d == ScanDigits(s, j, 0)
  IN  IF Len(s) = 0 THEN Num(0)
      ELSE IF j <= Len(s) /\ d.next = Len(s) + 1
           THEN Num(IF s[1] = MINUS THEN 0 - d.n ELSE d.n)
           ELSE NaN

\* ToNumber(v)
RECURSIVE ToNum(_)
ToNum(v) ==
  CASE v.t = "number" -> Num(v.n)
    [] v.t = "string" -> StrToNum(v.s)
    [] v.t = "true" -> Num(1)
    [] v.t \in {"false", "null"} -> Num(0)
    [] v.t = "array" ->
         IF Len(v.m) = 0 THEN Num(0)
         ELSE IF Len(v.m) = 1
              THEN IF v.m[1].t \in {"number", "string", "array", "null"}
                   THEN ToNum(v.m[1])
                   ELSE NaN
              ELSE NaN
    [] OTHER -> NaN

\* v < n for an integer n
LessThan(v, n) == LET x == ToNum(v) IN ~x.nan /\ x.n < n

(***************************************************************************)
(* NavigationAPI: configuration read from the environment.  An environment *)
(* variable is [set, v]: unset, or set to the text v.                      *)
(***************************************************************************)
Unset == [set |-> FALSE, v |-> <<>>]
SetTo(v) == [set |-> TRUE, v |-> v]

\* env.X || dflt
OrDefault(x, dflt) == IF x.set /\ Len(x.v) > 0 THEN x.v ELSE dflt

TrueWord == T(<<"t", "r", "u", "e">>)

\* the secret used when AUTH_SECRET is not set: fifteen CJK characters
DefaultSecret ==
  <<40664, 35748, 23494, 38053, 65292, 24314, 35758, 22312, 29983, 20135,
    29615, 22659, 20013, 35774, 32622>>

\* new NavigationAPI(env)
NavigationAPI(env) ==
  [authEnabled |-> env.AUTH_ENABLED.set /\ env.AUTH_ENABLED.v = TrueWord,
   username |-> OrDefault(env.AUTH_USERNAME, <<>>),
   password |-> OrDefault(env.AUTH_PASSWORD, <<>>),
   secret |-> OrDefault(env.AUTH_SECRET, DefaultSecret)]

(***************************************************************************)
(* Token service.                                                          *)
(***************************************************************************)
\* the token lifetime, 24 * 60 * 60 seconds
TokenLifetime == 86400

UsernameKey == T(<<"u", "s", "e", "r", "n", "a", "m", "e">>)
ExpKey == T(<<"e", "x", "p">>)
IatKey == T(<<"i", "a", "t">>)

\* { alg: "HS256", typ: "JWT" }
TokenHeader ==
  JObj(<< <<T(<<"a", "l", "g">>), JStr(T(<<"H", "S", "2", "5", "6">>))>>,
          <<T(<<"t", "y", "p">>), JStr(T(<<"J", "W", "T">>))>> >>)

\* .replace(/\+/g, "-").replace(/\//g, "_").replace(/=+$/, "")
UrlSafe(s) == StripPad(ReplaceAll(ReplaceAll(s, PLUS, MINUS), SLASH, UNDERSCORE))

\* { ...payload, exp: ..., iat: ... } for a payload { username }
TokenPayload(username, nowExp, nowIat) ==
  JObj(<< <<UsernameKey, JStr(username)>>,
          <<ExpKey, JNum(nowExp + TokenLifetime)>>,
          <<IatKey, JNum(nowIat)>> >>)

\* generateToken({ username }): nowExp and nowIat are the two readings of the
\* clock, in epoch seconds.  The result is [ok, v]; ~ok is a raised exception.
generateToken(api, username, nowExp, nowIat) ==
  LET h == btoa(Stringify(TokenHeader))
      p == btoa(Stringify(TokenPayload(username, nowExp, nowIat)))
  IN  IF ~h.ok \/ ~p.ok THEN [ok |-> FALSE, v |-> <<>>]
      ELSE LET encodedHeader == UrlSafe(h.v)
               encodedPayload == UrlSafe(p.v)
               sig == btoa(api.secret \o encodedHeader \o encodedPayload)
           IN  IF ~sig.ok THEN [ok |-> FALSE, v |-> <<>>]
               ELSE [ok |-> TRUE,
                     v |-> encodedHeader \o <<DOT>> \o encodedPayload
                           \o <<DOT>> \o UrlSafe(sig.v)]

Invalid == [valid |-> FALSE, hasPayload |-> FALSE, payload |-> JUndef]

\* const [header, payload, signature] = token.split(".")
Segment(parts, i) == IF i <= Len(parts) THEN parts[i] ELSE <<>>

\* verifyToken(token) at the clock reading now; every exception raised in the
\* body is caught and gives { valid: false }
verifyToken(api, token, now) ==
  IF ~api.authEnabled THEN [valid |-> TRUE, hasPayload |-> FALSE, payload |-> JUndef]
  ELSE LET parts == Split(token, DOT)
           header == Segment(parts, 1)
           payload == Segment(parts, 2)
           signature == Segment(parts, 3)
       IN  IF Len(header) = 0 \/ Len(payload) = 0 \/ Len(signature) = 0 THEN Invalid
           ELSE LET raw == atob(ReplaceAll(ReplaceAll(payload, MINUS, PLUS),
                                           UNDERSCORE, SLASH))
                IN  IF ~raw.ok THEN Invalid
                    ELSE LET decodedPayload == JsonParse(raw.v)
                         IN  IF ~decodedPayload.ok THEN Invalid
                             ELSE IF decodedPayload.v.t = "null" THEN Invalid
                             ELSE LET exp == Prop(decodedPayload.v, ExpKey)
                                  IN  IF Truthy(exp) /\ LessThan(exp, now)
                                      THEN Invalid
                                      ELSE [valid |-> TRUE, hasPayload |-> TRUE,
                                            payload |-> decodedPayload.v]

\* login(loginRequest): [threw, success, hasToken, token, message]
LoginResult(success, hasToken, token, message) ==
  [threw |-> FALSE, success |-> success, hasToken |-> hasToken, token |-> token,
   message |-> message]

LoginThrew ==
  [threw |-> TRUE, success |-> FALSE, hasToken |-> FALSE, token |-> <<>>,
   message |-> "none"]

Guest == T(<<"g", "u", "e", "s", "t">>)

\* login with a failure message that names the credential that was wrong
loginTelling(api, username, password, nowExp, nowIat) ==
  IF ~api.authEnabled \/ (username = api.username /\ password = api.password)
  THEN LET tok == generateToken(api, IF api.authEnabled THEN username ELSE Guest,
                                nowExp, nowIat)
       IN  IF tok.ok THEN LoginResult(TRUE, TRUE, tok.v, "logged in") ELSE LoginThrew
  ELSE LoginResult(FALSE, FALSE, <<>>,
                   IF username # api.username THEN "wrong username"
                   ELSE "wrong password")

login(api, username, password, nowExp, nowIat) ==
  IF ~api.authEnabled
  THEN LET tok == generateToken(api, Guest, nowExp, nowIat)
       IN  IF tok.ok THEN LoginResult(TRUE, TRUE, tok.v, "auth disabled, logged in")
           ELSE LoginThrew
  ELSE IF username = api.username /\ password = api.password
       THEN LET tok == generateToken(api, username, nowExp, nowIat)
            IN  IF tok.ok THEN LoginResult(TRUE, TRUE, tok.v, "logged in")
                ELSE LoginThrew
       ELSE LoginResult(FALSE, FALSE, <<>>, "wrong username or password")

(***************************************************************************)
(* Bounds of the model.                                                    *)
(***************************************************************************)
\* rows 1..MaxId exist in each table; MaxId + 1 is an id no row has
MaxId == 2
\* order_num values are 0..MaxOrder
MaxOrder == 1
\* a reorder request lists at most MaxItems items
MaxItems == 2
\* the clock is observed within MaxSlack seconds after time 0 and after the
\* expiry of a token issued at time 0
MaxSlack == 1

\* the requests a client has in flight at a time
MaxFlight == 2

Ids == 1..MaxId
Orders == 0..MaxOrder

(***************************************************************************)
(* State.                                                                  *)
(***************************************************************************)
VARIABLES
  env,          \* the Worker's environment (AUTH_* variables)
  now,          \* the wall clock, epoch seconds
  tablesExist,  \* the tables groups, sites, configs have been created
  groups,       \* table groups: id -> order_num
  sites,        \* table sites: id -> order_num
  configs,      \* table configs: key -> value
  req,          \* the request being handled by fetch
  tk,           \* the token under test (token service scenarios)
  rival,        \* a reorder call of a second invocation, racing with req
  siteGroup,    \* column group_id of table sites: id -> group_id
  seq,          \* table sqlite_sequence: the largest id each table has used
  imp,          \* the importData call in progress
  client,       \* the NavigationClient of the browser, and its localStorage
  app           \* the state of the App component and of its GroupCards

\* what lies outside the Worker handling one request
rest == <<rival, siteGroup, seq, imp, client, app>>

vars == <<env, now, tablesExist, groups, sites, configs, req, tk, rest>>

api == NavigationAPI(env)

(***************************************************************************)
(* The Authorization header and the auth middleware of fetch.              *)
(***************************************************************************)
NoHeader == [present |-> FALSE, v |-> <<>>]
Header(v) == [present |-> TRUE, v |-> v]

Bearer == T(<<"B", "e", "a", "r", "e", "r">>)

\* const [authType, token] = authHeader.split(" ")
AuthType(h) == Split(h, SPACE)[1]
AuthToken(h) == Segment(Split(h, SPACE), 2)

GateResult(decision, status, body, wwwAuth, verifyCalled) ==
  [decision |-> decision, status |-> status, body |-> body, wwwAuth |-> wwwAuth,
   verifyCalled |-> verifyCalled]

\* Gate, letting every Bearer token through without verifyToken
GateNoVerify(a, header, t) ==
  IF ~a.authEnabled THEN GateResult("disabled", 0, "none", FALSE, FALSE)
  ELSE IF ~header.present \/ Len(header.v) = 0
       THEN GateResult("deny", 401, "login first", TRUE, FALSE)
  ELSE IF AuthType(header.v) # Bearer \/ Len(AuthToken(header.v)) = 0
       THEN GateResult("deny", 401, "invalid auth info", FALSE, FALSE)
  ELSE GateResult("valid", 0, "none", FALSE, TRUE)

\* Gate, looking for the header before looking at authEnabled
GateHeaderFirst(a, header, t) ==
  IF ~header.present \/ Len(header.v) = 0
  THEN GateResult("deny", 401, "login first", TRUE, FALSE)
  ELSE IF ~a.authEnabled THEN GateResult("disabled", 0, "none", FALSE, FALSE)
  ELSE IF AuthType(header.v) # Bearer \/ Len(AuthToken(header.v)) = 0
       THEN GateResult("deny", 401, "invalid auth info", FALSE, FALSE)
  ELSE IF ~verifyToken(a, AuthToken(header.v), t).valid
       THEN GateResult("deny", 401, "expired or invalid, log in again", FALSE, TRUE)
  ELSE GateResult("valid", 0, "none", FALSE, TRUE)

\* Gate, answering a malformed header only after asking verifyToken
GateVerifyFirst(a, header, t) ==
  IF ~a.authEnabled THEN GateResult("disabled", 0, "none", FALSE, FALSE)
  ELSE IF ~header.present \/ Len(header.v) = 0
       THEN GateResult("deny", 401, "login first", TRUE, FALSE)
  ELSE IF ~verifyToken(a, AuthToken(header.v), t).valid
       THEN GateResult("deny", 401, "expired or invalid, log in again", FALSE, TRUE)
  ELSE IF AuthType(header.v) # Bearer \/ Len(AuthToken(header.v)) = 0
       THEN GateResult("deny", 401, "invalid auth info", FALSE, FALSE)
  ELSE GateResult("valid", 0, "none", FALSE, TRUE)

\* the middleware: decision "disabled" and "valid" let the request through
Gate(a, header, t) ==
  IF ~a.authEnabled THEN GateResult("disabled", 0, "none", FALSE, FALSE)
  ELSE IF ~header.present \/ Len(header.v) = 0
       THEN GateResult("deny", 401, "login first", TRUE, FALSE)
  ELSE IF AuthType(header.v) # Bearer \/ Len(AuthToken(header.v)) = 0
       THEN GateResult("deny", 401, "invalid auth info", FALSE, FALSE)
  ELSE IF ~verifyToken(a, AuthToken(header.v), t).valid
       THEN GateResult("deny", 401, "expired or invalid, log in again", FALSE, TRUE)
  ELSE GateResult("valid", 0, "none", FALSE, TRUE)

(***************************************************************************)
(* Storage (D1).  A statement or a batch executes atomically; a batch is a *)
(* transaction.                                                            *)
(***************************************************************************)
\* an update that creates the row when no row has the id
UpdateOrInsert(table, id, orderNum) ==
  [i \in DOMAIN table \cup {id} |-> IF i = id THEN orderNum ELSE table[i]]

\* UPDATE t SET order_num = ?, updated_at = CURRENT_TIMESTAMP WHERE id = ?
UpdateOrder(table, id, orderNum) ==
  IF id \in DOMAIN table THEN [table EXCEPT ![id] = orderNum] ELSE table

\* the statements of a batch, executed in order
RECURSIVE ApplyBatch(_, _)
ApplyBatch(table, items) ==
  IF Len(items) = 0 THEN table
  ELSE ApplyBatch(UpdateOrder(table, items[1].id, items[1].order_num), Tail(items))

(***************************************************************************)
(* Requests.  req is the request fetch is handling: where it is (pc), what *)
(* arrived, what has been done for it so far, and the response.            *)
(***************************************************************************)
Idle ==
  [pc |-> "idle", path |-> "none", method |-> "none", header |-> NoHeader,
   gate |-> "none", verifyCalled |-> FALSE, bodyRead |-> FALSE, dbOps |-> 0,
   items |-> <<>>, settled |-> "none", status |-> 0, body |-> "none",
   wwwAuth |-> FALSE,
   success |-> "none", message |-> "none", token |-> <<>>, rows |-> <<>>,
   login |-> [username |-> JUndef, password |-> JUndef],
   data |-> [isArray |-> FALSE, items |-> <<>>]]

\* the response is sent
Respond(r, status, body) == [r EXCEPT !.pc = "done", !.status = status, !.body = body]

Endpoints ==
  { [path |-> "login", method |-> "POST"], [path |-> "login", method |-> "GET"],
    [path |-> "init", method |-> "GET"],
    [path |-> "groups", method |-> "GET"], [path |-> "sites", method |-> "GET"],
    [path |-> "group-orders", method |-> "PUT"],
    [path |-> "site-orders", method |-> "PUT"] }

\* a token a client may hold: issued at time 0 to the configured user (with the
\* tag a client can compute itself when the server cannot issue)
HeldToken ==
  LET tok == generateToken(api, api.username, 0, 0)
  IN  IF tok.ok THEN tok.v
      ELSE UrlSafe(btoa(Stringify(TokenHeader)).v) \o <<DOT>>
           \o UrlSafe(btoa(Stringify(TokenPayload(api.username, 0, 0))).v) \o <<DOT>>
           \o T(<<"x">>)

Garbage == T(<<"a", "b", "c">>)

Headers ==
  { NoHeader, Header(<<>>),
    Header(T(<<"T", "o", "k", "e", "n", " ">>) \o Garbage),
    Header(Bearer), Header(Bearer \o <<SPACE>>),
    Header(Bearer \o <<SPACE, SPACE>> \o HeldToken),
    Header(T(<<"b", "e", "a", "r", "e", "r", " ">>) \o HeldToken),
    Header(Bearer \o <<SPACE>> \o Garbage),
    Header(Bearer \o <<SPACE>> \o HeldToken) }

\* fetch, from the arrival of a request (one of endpoints, carrying one of
\* headers) to the end of the auth middleware
FetchOn(endpoints, headers) ==
  /\ req.pc = "idle"
  /\ \E e \in endpoints, h \in headers :
       LET r == [Idle EXCEPT !.path = e.path, !.method = e.method, !.header = h]
           g == Gate(api, h, now)
       IN  req' =
             IF e.path = "login" /\ e.method = "POST" THEN [r EXCEPT !.pc = "login"]
             ELSE IF e.path = "init" /\ e.method = "GET" THEN [r EXCEPT !.pc = "init"]
             ELSE IF g.decision = "deny"
                  THEN [Respond(r, g.status, g.body) EXCEPT
                          !.gate = "deny", !.wwwAuth = g.wwwAuth,
                          !.verifyCalled = g.verifyCalled]
                  ELSE [r EXCEPT !.pc = "handler", !.gate = g.decision,
                                 !.verifyCalled = g.verifyCalled]
  /\ UNCHANGED <<env, now, tablesExist, groups, sites, configs, tk, rest>>

(***************************************************************************)
(* POST login.                                                             *)
(***************************************************************************)
\* a validation that checks the types of the fields only
validateLoginTypes(data) ==
  (IF data.username.t # "string" THEN <<"username">> ELSE <<>>)
  \o (IF data.password.t # "string" THEN <<"password">> ELSE <<>>)

\* validateLogin(data): the errors found, in order
validateLogin(data) ==
  (IF ~Truthy(data.username) \/ data.username.t # "string"
   THEN <<"username">> ELSE <<>>)
  \o (IF ~Truthy(data.password) \/ data.password.t # "string"
      THEN <<"password">> ELSE <<>>)

UserU == T(<<"u">>)
PassP == T(<<"p">>)

\* a field of the login body: absent, empty, the configured value, or that value
\* in upper case or followed by a space
LoginFields(good) ==
  {JUndef, JStr(<<>>), JStr(good), JStr([i \in 1..Len(good) |-> good[i] - 32]),
   JStr(good \o <<SPACE>>)}

LoginBodies ==
  [username : LoginFields(UserU), password : LoginFields(PassP)]

\* the instants at which the clock is observed
Instants == (0..MaxSlack) \cup (TokenLifetime..(TokenLifetime + MaxSlack))

\* the login route: body, validation, NavigationAPI.login; d is the advance of
\* the clock between the two readings generateToken makes
LoginHandler ==
  /\ req.pc = "login"
  /\ \E data \in LoginBodies, d \in {0, 1} :
       LET errors == validateLogin(data)
           r == [req EXCEPT !.bodyRead = TRUE, !.header = NoHeader, !.login = data]
       IN  IF Len(errors) > 0
           THEN /\ d = 0
                /\ req' = [Respond(r, 400, "json") EXCEPT
                             !.success = "false",
                             !.message = IF Len(errors) = 2
                                         THEN "validation failed: username, password"
                                         ELSE IF errors[1] = "username"
                                              THEN "validation failed: username"
                                              ELSE "validation failed: password"]
                /\ now' = now
           ELSE /\ now + d \in Instants
                /\ (d = 1 => api.authEnabled = FALSE
                             \/ (data.username.s = api.username
                                 /\ data.password.s = api.password))
                /\ now' = now + d
                /\ LET res == login(api, data.username.s, data.password.s, now, now + d)
                   IN  req' =
                         IF res.threw THEN Respond(r, 500, "error")
                         ELSE [Respond(r, 200, "json") EXCEPT
                                 !.success = IF res.success THEN "true" ELSE "false",
                                 !.message = res.message,
                                 !.token = res.token]
  /\ UNCHANGED <<env, tablesExist, groups, sites, configs, tk, rest>>

(***************************************************************************)
(* GET init, GET groups, GET sites, unknown paths.                         *)
(***************************************************************************)
InitFlag == "DB_INITIALIZED"

\* setConfig when its statement succeeds: INSERT ... ON CONFLICT(key) DO UPDATE
setConfig(table, key, value) ==
  [k \in DOMAIN table \cup {key} |-> IF k = key THEN value ELSE table[k]]

\* the init route: NavigationAPI.initDB.  The three CREATE TABLE IF NOT EXISTS
\* run, then setConfig("DB_INITIALIZED", "true"), which catches the failure of
\* its statement and returns false; initDB does not look at what it returns
InitHandler ==
  /\ req.pc = "init"
  /\ IF tablesExist /\ InitFlag \in DOMAIN configs /\ configs[InitFlag] = "true"
     THEN /\ req' = [Respond(req, 200, "already initialized") EXCEPT
                       !.dbOps = 1, !.header = NoHeader]
          /\ UNCHANGED <<tablesExist, configs>>
     ELSE /\ tablesExist' = TRUE
          /\ \E stored \in BOOLEAN :
               configs' = IF stored THEN setConfig(configs, InitFlag, "true")
                          ELSE configs
          /\ req' = [Respond(req, 200, "initialized") EXCEPT
                       !.dbOps = 5, !.header = NoHeader]
  /\ UNCHANGED <<env, now, groups, sites, tk, rest>>

\* the groups and sites routes: one SELECT
ReadHandler ==
  /\ req.pc = "handler"
  /\ req.method = "GET"
  /\ req.path \in {"groups", "sites"}
  /\ req' = IF tablesExist
            THEN [Respond(req, 200, "json") EXCEPT
                    !.dbOps = 1, !.header = NoHeader,
                    !.rows = IF req.path = "groups" THEN groups ELSE sites]
            ELSE [Respond(req, 500, "error") EXCEPT !.dbOps = 1, !.header = NoHeader]
  /\ UNCHANGED <<env, now, tablesExist, groups, sites, configs, tk, rest>>

\* no route matches
NotFound ==
  /\ req.pc = "handler"
  /\ req.path \notin {"groups", "sites", "group-orders", "site-orders"}
  /\ req' = [Respond(req, 404, "not found") EXCEPT !.header = NoHeader]
  /\ UNCHANGED <<env, now, tablesExist, groups, sites, configs, tk, rest>>

(***************************************************************************)
(* PUT group-orders, PUT site-orders.                                      *)
(***************************************************************************)
\* an element of the posted array: null, or an object with id and order_num
Item(id, orderNum) == [isNull |-> FALSE, id |-> id, order_num |-> orderNum]
NullItem == [isNull |-> TRUE, id |-> JUndef, order_num |-> JUndef]

GoodItems == {Item(JNum(i), JNum(n)) : i \in 1..(MaxId + 1), n \in Orders}

BadItems ==
  { NullItem, Item(JNum(0), JNum(0)), Item(JNum(1), JUndef),
    Item(JStr(T(<<"1">>)), JNum(0)) }

SeqsUpTo(S, n) == UNION {[1..k -> S] : k \in 0..n}

\* the posted body: not an array, or an array of elements
NotArray == [isArray |-> FALSE, items |-> <<>>]
OrderBodies ==
  {NotArray} \cup {[isArray |-> TRUE, items |-> l] :
                     l \in SeqsUpTo(GoodItems \cup BadItems, MaxItems)}

\* the test the route applies to one element
BadItem(item) ==
  \/ ~Truthy(item.id)
  \/ item.id.t # "number"
  \/ item.order_num.t = "undefined"
  \/ item.order_num.t # "number"

\* validation of the body: the first element that is null raises (reading .id
\* of null), the first element failing the test answers 400
ValidateOrder(data) ==
  IF ~data.isArray THEN "not an array"
  ELSE LET bad == {i \in 1..Len(data.items) :
                     data.items[i].isNull \/ BadItem(data.items[i])}
       IN  IF bad = {} THEN "ok"
           ELSE LET first == CHOOSE i \in bad : \A j \in bad : i <= j
                IN  IF data.items[first].isNull THEN "throws" ELSE "bad item"

\* the statements bound from the items
Statements(items) ==
  [i \in 1..Len(items) |-> [id |-> items[i].id.n, order_num |-> items[i].order_num.n]]

\* the reorder routes up to the call of db.batch, for a body among bodies
OrderHandlerOn(bodies) ==
  /\ req.pc = "handler"
  /\ req.method = "PUT"
  /\ req.path \in {"group-orders", "site-orders"}
  /\ \E data \in bodies :
       LET r == [req EXCEPT !.bodyRead = TRUE, !.header = NoHeader, !.data = data]
           v == ValidateOrder(data)
       IN  req' =
             CASE v = "not an array" ->
                    [Respond(r, 400, "json") EXCEPT
                       !.success = "false", !.message = "order data must be an array"]
               [] v = "bad item" ->
                    [Respond(r, 400, "json") EXCEPT
                       !.success = "false",
                       !.message = "every item must have id and order_num"]
               [] v = "throws" -> Respond(r, 500, "error")
               [] OTHER ->
                    [r EXCEPT !.pc = "batch", !.dbOps = 1,
                              !.items = Statements(data.items)]
  /\ UNCHANGED <<env, now, tablesExist, groups, sites, configs, tk, rest>>

\* updateGroupOrder / updateSiteOrder: batch(...).then(() => true).catch(() => false)
\* for the way the promise of db.batch settles
updateOrderResult(settled) == settled # "rejected"

\* the batch settles and the route answers { success: result }
BatchDone(settled, table) ==
  [Respond(req, 200, "json") EXCEPT
     !.settled = settled,
     !.success = IF updateOrderResult(settled) THEN "true" ELSE "false",
     !.rows = table]

TableOf(r) == IF r.path = "group-orders" THEN groups ELSE sites

\* the transaction commits; the promise resolves with the results
BatchCommit ==
  /\ req.pc = "batch"
  /\ tablesExist
  /\ IF req.path = "group-orders"
     THEN groups' = ApplyBatch(groups, req.items) /\ sites' = sites
     ELSE sites' = ApplyBatch(sites, req.items) /\ groups' = groups
  /\ req' = BatchDone("resolved", ApplyBatch(TableOf(req), req.items))
  /\ UNCHANGED <<env, now, tablesExist, configs, tk, rest>>

\* the transaction fails and is rolled back; the promise rejects
BatchReject ==
  /\ req.pc = "batch"
  /\ req' = BatchDone("rejected", TableOf(req))
  /\ UNCHANGED <<env, now, tablesExist, groups, sites, configs, tk, rest>>

\* the transaction fails and is rolled back; the promise resolves with a
\* D1Result whose success is false
BatchResolveFailed ==
  /\ req.pc = "batch"
  /\ tablesExist
  /\ req' = BatchDone("resolved with failure", TableOf(req))
  /\ UNCHANGED <<env, now, tablesExist, groups, sites, configs, tk, rest>>

(***************************************************************************)
(* The clock, and the specification of the Worker.                         *)
(***************************************************************************)
Tick ==
  /\ \E t \in Instants : t > now /\ now' = t
  /\ UNCHANGED <<env, tablesExist, groups, sites, configs, req, tk, rest>>

\* the response has been delivered; the next request can arrive
Finish ==
  /\ req.pc = "done"
  /\ req' = Idle
  /\ UNCHANGED <<env, now, tablesExist, groups, sites, configs, tk, rest>>

FalseWord == T(<<"f", "a", "l", "s", "e">>)

Environment(enabled, username, password, secret) ==
  [AUTH_ENABLED |-> enabled, AUTH_USERNAME |-> username,
   AUTH_PASSWORD |-> password, AUTH_SECRET |-> secret]

Envs ==
  { Environment(Unset, Unset, Unset, Unset),
    Environment(SetTo(FalseWord), SetTo(UserU), SetTo(PassP), SetTo(T(<<"s">>))),
    Environment(SetTo(TrueWord), SetTo(UserU), SetTo(PassP), SetTo(T(<<"s">>))),
    Environment(SetTo(TrueWord), SetTo(UserU), SetTo(PassP), Unset),
    Environment(SetTo(TrueWord), Unset, Unset, SetTo(T(<<"s">>))),
    Environment(SetTo(TrueWord), SetTo(UserU), Unset, SetTo(T(<<"s">>))) }

NoToken ==
  [pc |-> "none", username |-> <<>>, exp |-> JUndef, iat |-> JUndef,
   token |-> <<>>, origin |-> "none", checked |-> FALSE, checkedAt |-> 0,
   result |-> Invalid]

\* a database never initialised, or one holding rows 1..MaxId of each table in
\* the order of their ids
FreshDb ==
  tablesExist = FALSE /\ groups = <<>> /\ sites = <<>> /\ configs = <<>>

PopulatedDb ==
  /\ tablesExist = TRUE
  /\ groups = [i \in Ids |-> (i - 1) % (MaxOrder + 1)]
  /\ sites = [i \in Ids |-> (i - 1) % (MaxOrder + 1)]
  /\ configs = [k \in {InitFlag} |-> "true"]

\* no second reorder call, no import, no browser; every site in group 1
NoRival ==
  [pc |-> "idle", path |-> "none", items |-> <<>>, settled |-> "none",
   success |-> "none", last |-> FALSE]

\* an export snapshot (ExportData) and the tables as a call finds them
Snapshot(g, s, c) == [groups |-> g, sites |-> s, configs |-> c]
Stored(g, s, sg, c) == [groups |-> g, sites |-> s, siteGroup |-> sg, configs |-> c]

NoImport ==
  [pc |-> "idle", data |-> Snapshot(<<>>, <<>>, <<>>),
   before |-> Stored(<<>>, <<>>, <<>>, <<>>),
   made |-> <<>>, groupMap |-> <<>>, placed |-> <<>>, result |-> "none"]
\* new NavigationClient() in a browser whose localStorage has no auth_token;
\* flight holds the requests sent and not yet answered; granted and denied
\* record that a login was answered with success and a token, and that a
\* request was answered 401 since
NoClient ==
  [token |-> <<>>, stored |-> <<>>, flight |-> {}, granted |-> FALSE,
   denied |-> FALSE]
\* what the last handler of the App did: whether the client held a token,
\* whether the call it made came back true (a login: with success), whether
\* it sent a request, called fetchData, called handleError; the handlers no
\* property singles out go by the name "other"
Last(name) ==
  [name |-> name, ok |-> FALSE, token |-> FALSE, asked |-> FALSE,
   fetch |-> FALSE, shown |-> FALSE]

\* the App before its mount effect has run (useState initial values); cards
\* holds the sites state of every mounted GroupCard, fetched what the last
\* successful fetchData received, admitted that checkAuthStatus has returned
\* true or a login has succeeded
NoApp ==
  [pc |-> "unmounted", isAuthChecking |-> TRUE, isAuthRequired |-> FALSE,
   isAuthenticated |-> FALSE, loading |-> TRUE, error |-> FALSE,
   groups |-> <<>>, sortMode |-> "None", currentSortingGroupId |-> 0,
   cards |-> <<>>, fetched |-> <<>>, admitted |-> FALSE, last |-> Last("none")]

Columns ==
  /\ siteGroup = [i \in DOMAIN sites |-> 1]
  /\ seq = [groups |-> Len(groups), sites |-> Len(sites)]

Elsewhere ==
  /\ rival = NoRival
  /\ Columns
  /\ imp = NoImport
  /\ client = NoClient
  /\ app = NoApp

Init ==
  /\ env \in Envs
  /\ now = 0
  /\ (FreshDb \/ PopulatedDb)
  /\ req = Idle
  /\ tk = NoToken
  /\ Elsewhere

Fetch == FetchOn(Endpoints, Headers)

\* the bodies posted to the reorder routes in the Worker specification
SampleBodies ==
  { NotArray,
    [isArray |-> TRUE, items |-> <<>>],
    [isArray |-> TRUE, items |-> <<NullItem>>],
    [isArray |-> TRUE, items |-> <<Item(JNum(0), JNum(0))>>],
    [isArray |-> TRUE, items |-> <<Item(JNum(1), JUndef)>>],
    [isArray |-> TRUE, items |-> <<Item(JNum(MaxId + 1), JNum(0))>>],
    [isArray |-> TRUE, items |-> <<Item(JNum(MaxId + 1), JNum(1)), Item(JNum(1), JNum(1))>>],
    [isArray |-> TRUE, items |-> <<Item(JNum(2), JNum(0)), Item(JNum(1), JNum(1))>>] }

OrderHandler == OrderHandlerOn(SampleBodies)

Next ==
  \/ Fetch
  \/ LoginHandler
  \/ InitHandler
  \/ ReadHandler
  \/ NotFound
  \/ OrderHandler
  \/ BatchCommit
  \/ BatchReject
  \/ BatchResolveFailed
  \/ Finish
  \/ Tick

Spec == Init /\ [][Next]_vars

(***************************************************************************)
(* Order Sync on its own: reorder and read requests against the storage,   *)
(* with every body the bounds allow.                                       *)
(***************************************************************************)
OrderEndpoints ==
  { [path |-> "groups", method |-> "GET"], [path |-> "sites", method |-> "GET"],
    [path |-> "group-orders", method |-> "PUT"],
    [path |-> "site-orders", method |-> "PUT"] }

InitOrder ==
  /\ env = Environment(Unset, Unset, Unset, Unset)
  /\ now = 0
  /\ (FreshDb \/ PopulatedDb)
  /\ req = Idle
  /\ tk = NoToken
  /\ Elsewhere

OrderFetch == FetchOn(OrderEndpoints, {NoHeader})

OrderHandlerAll == OrderHandlerOn(OrderBodies)

NextOrder ==
  \/ OrderFetch
  \/ ReadHandler
  \/ OrderHandlerAll
  \/ BatchCommit
  \/ BatchReject
  \/ BatchResolveFailed
  \/ Finish

SpecOrder == InitOrder /\ [][NextOrder]_vars

\* the ids a request lists, and the order_num it supplies for an id (the one
\* of the last item naming it)
ListedIds(items) == {items[i].id : i \in 1..Len(items)}

Supplied(items, id) ==
  LET last == CHOOSE i \in 1..Len(items) :
                /\ items[i].id = id
                /\ \A j \in 1..Len(items) : items[j].id = id => j <= i
  IN  items[last].order_num

\* the step in which the batch of the request settles
Settles == req.pc = "batch" /\ req'.pc = "done"

\* every listed row of t carries its supplied order_num
AllApplied(items, t) ==
  \A id \in ListedIds(items) \cap DOMAIN t : t[id] = Supplied(items, id)

\* no listed row differs between t1 and t2
NoneChanged(items, t1, t2) ==
  \A id \in ListedIds(items) \cap DOMAIN t1 : t2[id] = t1[id]

\* C1: Order Sync is all-or-nothing: when the call returns, either every listed
\* id has its supplied order_num and the call returned true, or no listed id
\* has changed and the call returned false; and the tables never change except
\* by a whole request taking effect at once.
C1_AllOrNothing ==
  [][ /\ Settles =>
           LET before == TableOf(req)
               after == IF req.path = "group-orders" THEN groups' ELSE sites'
           IN  \/ req'.success = "true" /\ AllApplied(req.items, after)
               \/ req'.success = "false" /\ NoneChanged(req.items, before, after)
      /\ (groups' # groups \/ sites' # sites) =>
           /\ Settles
           /\ AllApplied(req.items, IF req.path = "group-orders" THEN groups' ELSE sites')
    ]_vars

\* C2: Order Sync reports Applied only when the batch succeeded: when the batch
\* rejects, or resolves reporting a failed statement, the call returns false
\* and the response is {success: false}.
C2_FailureReported ==
  (req.pc = "done" /\ req.settled \in {"rejected", "resolved with failure"})
    => req.success = "false"

\* C3: after a call that returned true, every listed id has the order_num
\* supplied for it, and every other row of either table is unchanged.
C3_FrameEffect ==
  [][ (Settles /\ req'.success = "true") =>
        LET group == req.path = "group-orders"
            before == TableOf(req)
            after == IF group THEN groups' ELSE sites'
        IN  /\ AllApplied(req.items, after)
            /\ \A id \in DOMAIN before \ ListedIds(req.items) : after[id] = before[id]
            /\ DOMAIN after = DOMAIN before
            /\ IF group THEN sites' = sites ELSE groups' = groups
    ]_vars

(***************************************************************************)
(* The token service on its own: a token is issued (generateToken), or     *)
(* built by a client, possibly altered, and presented to verifyToken.      *)
(***************************************************************************)
TokenEnvs ==
  { Environment(SetTo(TrueWord), SetTo(UserU), SetTo(PassP), SetTo(T(<<"s">>))),
    Environment(SetTo(TrueWord), SetTo(UserU), SetTo(PassP), Unset) }

\* identities: one with a quote and a Latin-1 letter, one outside Latin-1
Identities == {<<Code("u"), QUOTE, 233>>, <<29992, 25143>>}

InitToken ==
  /\ env \in TokenEnvs
  /\ now = 0
  /\ PopulatedDb
  /\ req = Idle
  /\ tk = NoToken
  /\ Elsewhere

Held(username, exp, iat, token, origin) ==
  [pc |-> "held", username |-> username, exp |-> exp, iat |-> iat,
   token |-> token, origin |-> origin, checked |-> FALSE, checkedAt |-> 0,
   result |-> Invalid]

\* generateToken is called for an identity; d is the advance of the clock
\* between its two readings
TokenIssue ==
  /\ tk.pc = "none"
  /\ \E name \in Identities, d \in {0, 1} :
       /\ now + d \in Instants
       /\ now' = now + d
       /\ LET res == generateToken(api, name, now, now + d)
          IN  tk' = IF res.ok
                    THEN Held(name, JNum(now + TokenLifetime), JNum(now + d),
                              res.v, "issued")
                    ELSE [NoToken EXCEPT !.pc = "threw", !.username = name]
  /\ UNCHANGED <<env, tablesExist, groups, sites, configs, req, rest>>

\* the expiry claims of the tokens a client builds: none, or a number
ForgedExps == {JUndef} \cup {JNum(n) : n \in {0} \cup Instants}

ForgedPayload(exp) ==
  JObj(<< <<UsernameKey, JStr(UserU)>> >>
       \o (IF exp.t = "undefined" THEN <<>> ELSE << <<ExpKey, exp>> >>)
       \o << <<IatKey, JNum(0)>> >>)

\* a client builds a token: the claims it likes, and the tag of generateToken
\* (when that can be computed) or another one
TokenForge ==
  /\ tk.pc = "none"
  /\ \E exp \in ForgedExps, rightTag \in BOOLEAN :
       LET h == UrlSafe(btoa(Stringify(TokenHeader)).v)
           p == UrlSafe(btoa(Stringify(ForgedPayload(exp))).v)
           sig == btoa(api.secret \o h \o p)
       IN  /\ rightTag => sig.ok
           /\ tk' = Held(UserU, exp, JNum(0),
                         h \o <<DOT>> \o p \o <<DOT>>
                           \o (IF rightTag THEN UrlSafe(sig.v) ELSE T(<<"x">>)),
                         "forged")
  /\ UNCHANGED <<env, now, tablesExist, groups, sites, configs, req, rest>>

\* strings that are not three non-empty base64url segments with JSON claims,
\* built from a well-formed header h and claims segment p
MalformedTokens ==
  LET h == UrlSafe(btoa(Stringify(TokenHeader)).v)
      p == UrlSafe(btoa(Stringify(ForgedPayload(JUndef))).v)
      x == T(<<"x">>)
      bang == T(<<"!">>)
      dot == <<DOT>>
  IN  { [kind |-> "one segment", token |-> h],
        [kind |-> "two segments", token |-> h \o dot \o p],
        [kind |-> "four segments", token |-> h \o dot \o p \o dot \o x \o dot \o x],
        [kind |-> "empty header", token |-> dot \o p \o dot \o x],
        [kind |-> "empty claims", token |-> h \o dot \o dot \o x],
        [kind |-> "empty tag", token |-> h \o dot \o p \o dot],
        [kind |-> "header not base64url", token |-> bang \o dot \o p \o dot \o x],
        [kind |-> "claims not base64url", token |-> h \o dot \o bang \o dot \o x],
        [kind |-> "tag not base64url", token |-> h \o dot \o p \o dot \o bang],
        [kind |-> "claims not JSON",
         token |-> h \o dot \o UrlSafe(btoa(T(<<"a", "b", "c">>)).v) \o dot \o x] }

\* a client builds a malformed token
TokenMangle ==
  /\ tk.pc = "none"
  /\ \E m \in MalformedTokens : tk' = Held(UserU, JUndef, JUndef, m.token, m.kind)
  /\ UNCHANGED <<env, now, tablesExist, groups, sites, configs, req, rest>>

\* the characters of base64url
B64UrlChars == Range(UrlSafe(B64Chars))

\* the positions of the claims segment in a token
PayloadPositions(token) ==
  LET seps == SepAt(token, DOT)
  IN  (NthSep(seps, Len(token), 1) + 1)..(NthSep(seps, Len(token), 2) - 1)

\* an issued token is presented to verifyToken with one character of its
\* claims segment changed
TokenTamper ==
  /\ tk.pc = "held"
  /\ tk.origin = "issued"
  /\ ~tk.checked
  /\ \E i \in PayloadPositions(tk.token), c \in B64UrlChars :
       /\ c # tk.token[i]
       /\ LET altered == [tk.token EXCEPT ![i] = c]
          IN  tk' = [tk EXCEPT !.token = altered, !.origin = "tampered",
                               !.checked = TRUE, !.checkedAt = now,
                               !.result = verifyToken(api, altered, now)]
  /\ UNCHANGED <<env, now, tablesExist, groups, sites, configs, req, rest>>

\* the token is presented to verifyToken
TokenVerify ==
  /\ tk.pc = "held"
  /\ ~tk.checked
  /\ tk' = [tk EXCEPT !.checked = TRUE, !.checkedAt = now,
                      !.result = verifyToken(api, tk.token, now)]
  /\ UNCHANGED <<env, now, tablesExist, groups, sites, configs, req, rest>>

\* the token is dropped
TokenDiscard ==
  /\ tk.pc # "none"
  /\ tk' = NoToken
  /\ UNCHANGED <<env, now, tablesExist, groups, sites, configs, req, rest>>

\* time passes while a token is held unpresented
TokenTick ==
  /\ ~tk.checked
  /\ Tick

NextToken ==
  \/ TokenIssue
  \/ TokenForge
  \/ TokenMangle
  \/ TokenTamper
  \/ TokenVerify
  \/ TokenDiscard
  \/ TokenTick

SpecToken == InitToken /\ [][NextToken]_vars

(***************************************************************************)
(* The auth gate.                                                          *)
(***************************************************************************)
\* the routes answered before the middleware
Bypass(r) ==
  \/ r.path = "login" /\ r.method = "POST"
  \/ r.path = "init" /\ r.method = "GET"

\* something has been done for the request beyond the middleware
HandlerRan(r) == r.bodyRead \/ r.dbOps > 0 \/ r.pc \in {"handler", "batch"}

\* the step in which a request arrives and passes through the middleware
Arrives == req.pc = "idle" /\ req'.pc # "idle"

\* C4: with auth enabled, a request other than POST login and GET init that the
\* gate denies is answered 401 with no storage access and no body read, and a
\* handler runs for it only after verifyToken accepted the presented token.
C4_GateBeforeHandler ==
  [][ api.authEnabled =>
        /\ req'.gate = "deny" =>
             req'.status = 401 /\ req'.dbOps = 0 /\ ~req'.bodyRead /\ req'.pc = "done"
        /\ (HandlerRan(req') /\ ~Bypass(req')) =>
             req'.gate = "valid" /\ req'.verifyCalled
        /\ (Arrives /\ ~Bypass(req') /\ req'.pc # "done") =>
             /\ req'.header.present
             /\ verifyToken(api, AuthToken(req'.header.v), now).valid
    ]_vars

\* a reorder request carrying a token verifyToken rejects has been denied
C4_Witness ==
  /\ api.authEnabled
  /\ req.path = "group-orders"
  /\ req.gate = "deny"
  /\ req.verifyCalled
  /\ req.status = 401

\* C9: with auth disabled, every request is let through to its handler,
\* whatever its Authorization header; the gate never answers 401.
C9_GateBypass ==
  [][ ~api.authEnabled =>
        /\ req'.status # 401
        /\ req'.gate # "deny"
        /\ (Arrives /\ ~Bypass(req')) =>
             req'.pc = "handler" /\ req'.gate = "disabled" /\ ~req'.verifyCalled
    ]_vars

\* with auth disabled, a request with a garbage token has reached its handler
C9_Witness ==
  /\ ~api.authEnabled
  /\ req.pc = "handler"
  /\ req.header = Header(Bearer \o <<SPACE>> \o Garbage)

\* C10: with auth enabled, a gated request without an Authorization header (or
\* with an empty one) gets 401 with WWW-Authenticate: Bearer; one whose scheme
\* is not Bearer or whose token is empty gets 401 with the generic body and
\* verifyToken is not called; one whose token verifyToken rejects gets 401
\* with the one re-authenticate body, whatever the reason of the rejection.
C10_DenialShapes ==
  [][ (api.authEnabled /\ Arrives /\ ~Bypass(req')) =>
        LET h == req'.header
            missing == ~h.present \/ Len(h.v) = 0
            malformed == ~missing /\ (AuthType(h.v) # Bearer \/ Len(AuthToken(h.v)) = 0)
            rejected == ~missing /\ ~malformed
                        /\ ~verifyToken(api, AuthToken(h.v), now).valid
        IN  /\ missing => req'.status = 401 /\ req'.wwwAuth
            /\ malformed =>
                 /\ req'.status = 401
                 /\ req'.body = "invalid auth info"
                 /\ ~req'.verifyCalled
            /\ rejected =>
                 /\ req'.status = 401
                 /\ req'.body = "expired or invalid, log in again"
                 /\ req'.verifyCalled
    ]_vars

\* an expired token has been answered with the re-authenticate body
C10_Witness ==
  /\ api.authEnabled
  /\ now > TokenLifetime
  /\ req.header = Header(Bearer \o <<SPACE>> \o HeldToken)
  /\ req.status = 401
  /\ req.body = "expired or invalid, log in again"

(***************************************************************************)
(* The token service.                                                      *)
(***************************************************************************)
\* the claims recorded for the token are the claims it carries
ClaimsKnown == tk.origin \in {"issued", "forged"}

\* C5: an issued token with one character of its claims segment changed is
\* rejected by verifyToken.
C5_TamperDetected ==
  (api.authEnabled /\ tk.origin = "tampered" /\ tk.checked) => ~tk.result.valid

\* C6: a token whose expiry claim is earlier than the time of the check is
\* rejected, whatever its tag.
C6_ExpiredRejected ==
  (api.authEnabled /\ tk.checked /\ ClaimsKnown
     /\ tk.exp.t = "number" /\ tk.exp.n < tk.checkedAt)
    => ~tk.result.valid

\* C7: a token whose expiry claim equals the time of the check, or is absent,
\* or is 0, is rejected.
C7_StrictExpiry ==
  (api.authEnabled /\ tk.checked /\ ClaimsKnown
     /\ (tk.exp.t = "undefined" \/ tk.exp.n = 0 \/ tk.exp.n = tk.checkedAt))
    => ~tk.result.valid

\* C8: for every identity and secret generateToken produces a token, and the
\* token is accepted at any time before its expiry with the claims issued.
C8_RoundTrip ==
  /\ tk.pc # "threw"
  /\ (api.authEnabled /\ tk.origin = "issued" /\ tk.checked
        /\ tk.checkedAt < tk.exp.n)
       => /\ tk.result.valid
          /\ tk.result.hasPayload
          /\ tk.result.payload =
               JObj(<< <<UsernameKey, JStr(tk.username)>>, <<ExpKey, tk.exp>>,
                       <<IatKey, tk.iat>> >>)

(***************************************************************************)
(* Login.                                                                  *)
(***************************************************************************)
\* the login route has answered a body that passed validateLogin
LoginAnswered ==
  /\ req.path = "login" /\ req.method = "POST"
  /\ req.pc = "done"
  /\ Len(validateLogin(req.login)) = 0

\* the credentials of the body are the configured ones
Matches(data) == data.username.s = api.username /\ data.password.s = api.password

\* the claims a token carries, read as verifyToken reads them
ClaimsOf(token) == verifyToken([api EXCEPT !.authEnabled = TRUE], token, 0).payload

\* C11: with auth disabled, login returns success with a non-empty token for
\* the guest identity for every username/password pair that reaches it,
\* whatever the configured credentials are.
C11_GuestLogin ==
  (~api.authEnabled /\ LoginAnswered) =>
    /\ req.status = 200
    /\ req.success = "true"
    /\ Len(req.token) > 0
    /\ Prop(ClaimsOf(req.token), UsernameKey) = JStr(Guest)

\* C12: with auth disabled, a POST login with empty credentials is answered
\* {success: true, token: <non-empty>}, and a gated request presenting that
\* token is allowed.
C12_EmptyLoginScenario ==
  ( /\ ~api.authEnabled
    /\ req.path = "login" /\ req.method = "POST" /\ req.pc = "done"
    /\ req.login = [username |-> JStr(<<>>), password |-> JStr(<<>>)] )
  => /\ req.status = 200
     /\ req.success = "true"
     /\ Len(req.token) > 0
     /\ \A t \in Instants :
          Gate(api, Header(Bearer \o <<SPACE>> \o req.token), t).decision # "deny"

\* C13: with auth enabled, login succeeds with a fresh token exactly when the
\* supplied username and password equal the configured ones character for
\* character; otherwise it returns success=false and no token.
C13_ExactMatch ==
  (api.authEnabled /\ LoginAnswered) =>
    IF Matches(req.login)
    THEN /\ req.status = 200 /\ req.success = "true" /\ Len(req.token) > 0
         /\ Prop(ClaimsOf(req.token), UsernameKey) = JStr(api.username)
    ELSE req.status = 200 /\ req.success = "false" /\ Len(req.token) = 0

\* C22: with auth enabled and AUTH_USERNAME or AUTH_PASSWORD unset (or empty),
\* no POST login is ever answered with success=true or with a token, whatever
\* credentials are supplied.
C22_UnconfiguredNeverSucceeds ==
  ( /\ api.authEnabled
    /\ (api.username = <<>> \/ api.password = <<>>)
    /\ req.path = "login" /\ req.method = "POST" /\ req.pc = "done" )
  => req.success # "true" /\ Len(req.token) = 0

\* with only the password unset, a login with the configured username and a
\* non-empty password has reached NavigationAPI.login and has been refused
C22_Witness ==
  /\ api.authEnabled
  /\ api.username # <<>> /\ api.password = <<>>
  /\ LoginAnswered
  /\ req.login.username.s = api.username
  /\ req.status = 200
  /\ req.success = "false"

\* C14: with auth enabled, every failing login that passed validation gets the
\* same response, whichever of the username and the password was wrong.
C14_FailureUniform ==
  (api.authEnabled /\ LoginAnswered /\ ~Matches(req.login))
  => [req EXCEPT !.login = Idle.login] =
       [Respond([Idle EXCEPT !.path = "login", !.method = "POST", !.bodyRead = TRUE],
                200, "json")
          EXCEPT !.success = "false", !.message = "wrong username or password"]

\* a login with the right username and a wrong password has failed, after one
\* with a wrong username and the right password is possible too
C14_Witness ==
  /\ api.authEnabled
  /\ LoginAnswered
  /\ req.login.username.s = api.username
  /\ req.login.password.s # api.password
  /\ req.success = "false"

\* C16: issuing a token never raises: a login whose credentials match, or any
\* login with auth disabled, never ends in an error response, whatever the
\* configuration (AUTH_SECRET unset included).
C16_IssueNeverRaises ==
  (req.path = "login" /\ req.method = "POST" /\ req.pc = "done") => req.status # 500

(***************************************************************************)
(* Issued claims and malformed tokens.                                     *)
(***************************************************************************)
\* C15: every token issued carries an expiry exactly 86400 seconds after its
\* issued-at claim, also when the clock advances between the two readings
\* generateToken makes.
C15_LifetimeExact ==
  (tk.pc = "held" /\ tk.origin = "issued") =>
    LET claims == ClaimsOf(tk.token)
    IN  /\ Prop(claims, ExpKey).t = "number"
        /\ Prop(claims, IatKey).t = "number"
        /\ Prop(claims, ExpKey).n = Prop(claims, IatKey).n + TokenLifetime

\* C17: verifyToken returns invalid for every string that is not exactly three
\* non-empty dot-separated segments, and for every string with a header,
\* claims or tag segment that is not base64url or claims that do not parse.
C17_MalformedRejected ==
  (api.authEnabled /\ tk.checked /\ tk.origin \in {m.kind : m \in MalformedTokens})
    => ~tk.result.valid

(***************************************************************************)
(* The reorder routes.                                                     *)
(***************************************************************************)
\* a reorder route has read the body of the request
Reordering == req.path \in {"group-orders", "site-orders"} /\ req.bodyRead

\* the element is an object carrying a number as id and a number as order_num
WellTyped(item) ==
  ~item.isNull /\ item.id.t = "number" /\ item.order_num.t = "number"

\* C18: a reorder body that is not an array, or has an element that is null or
\* lacks a numeric id or order_num, is answered 400 with Order Sync not invoked;
\* a body whose elements all carry an integer id (0 included) and an integer
\* order_num is passed to Order Sync and answered {success: <its result>}.
C18_PayloadValidation ==
  Reordering =>
    IF ~req.data.isArray
       \/ \E i \in 1..Len(req.data.items) : ~WellTyped(req.data.items[i])
    THEN req.pc = "done" /\ req.status = 400 /\ req.dbOps = 0 /\ req.settled = "none"
    ELSE /\ req.items = Statements(req.data.items)
         /\ \/ req.pc = "batch"
            \/ /\ req.pc = "done" /\ req.status = 200 /\ req.settled # "none"
               /\ req.success = IF updateOrderResult(req.settled) THEN "true"
                                ELSE "false"

\* C19: Order Sync is invoked only with a non-empty list of items whose ids are
\* pairwise distinct; an empty array or a repeated id is answered as a
\* violation before updateGroupOrder / updateSiteOrder is called.
C19_SyncPreconditions ==
  (Reordering /\ req.dbOps > 0) =>
    /\ Len(req.items) > 0
    /\ \A i, j \in 1..Len(req.items) : req.items[i].id = req.items[j].id => i = j

\* C20: when the batch of a request naming ids that no row has commits, the
\* call returns true, every listed row that exists has its supplied order_num,
\* no row is created, and every other row of either table is untouched.
C20_UnknownIds ==
  [][ ( /\ Settles
        /\ req'.settled = "resolved"
        /\ ListedIds(req.items) \ DOMAIN TableOf(req) # {} ) =>
        LET group == req.path = "group-orders"
            before == TableOf(req)
            after == IF group THEN groups' ELSE sites'
        IN  /\ req'.success = "true"
            /\ AllApplied(req.items, after)
            /\ DOMAIN after = DOMAIN before
            /\ \A id \in DOMAIN before \ ListedIds(req.items) : after[id] = before[id]
            /\ IF group THEN sites' = sites ELSE groups' = groups
    ]_vars

\* a request naming an unknown id and row 1 has been applied: row 1 has moved
C20_Witness ==
  /\ req.pc = "done"
  /\ req.path = "group-orders"
  /\ req.settled = "resolved"
  /\ req.success = "true"
  /\ req.items = <<[id |-> MaxId + 1, order_num |-> 1], [id |-> 1, order_num |-> 1]>>
  /\ groups[1] = 1
  /\ DOMAIN groups = Ids


(***************************************************************************)
(* Initialisation of the database.                                         *)
(***************************************************************************)
\* the flag initDB looks for is stored in table c
Flagged(c) == InitFlag \in DOMAIN c /\ c[InitFlag] = "true"

\* C30: initDB is idempotent: it reports alreadyInitialized=false only when it
\* has stored the DB_INITIALIZED flag, so that once one call has completed
\* every later call reports alreadyInitialized=true; and a call that finds the
\* flag creates no table and writes no configuration.
C30_InitIdempotent ==
  [][ (req.pc = "init" /\ req'.pc = "done") =>
        /\ req'.body = "initialized" => Flagged(configs')
        /\ (tablesExist /\ Flagged(configs)) =>
             /\ req'.body = "already initialized"
             /\ configs' = configs /\ tablesExist' = tablesExist
    ]_vars


(***************************************************************************)
(* Two reorder calls racing: req, and the call of a second invocation of   *)
(* the Worker (rival) that has validated its body and calls db.batch.      *)
(***************************************************************************)
RaceEndpoints ==
  { [path |-> "group-orders", method |-> "PUT"],
    [path |-> "site-orders", method |-> "PUT"] }

\* the bodies the racing calls post: arrays of well-formed items
RaceBodies == {[isArray |-> TRUE, items |-> l] : l \in SeqsUpTo(GoodItems, MaxItems)}

InitRace ==
  /\ env = Environment(Unset, Unset, Unset, Unset)
  /\ now = 0
  /\ PopulatedDb
  /\ req = Idle
  /\ tk = NoToken
  /\ Elsewhere

RaceFetch == FetchOn(RaceEndpoints, {NoHeader})

RaceHandler == OrderHandlerOn(RaceBodies)

\* the second invocation reaches db.batch(...) of updateGroupOrder / updateSiteOrder
RivalCall ==
  /\ rival.pc = "idle"
  /\ \E e \in RaceEndpoints, data \in RaceBodies :
       rival' = [NoRival EXCEPT !.pc = "batch", !.path = e.path,
                                !.items = Statements(data.items)]
  /\ UNCHANGED <<env, now, tablesExist, groups, sites, configs, req, tk,
                 siteGroup, seq, imp, client, app>>

\* its batch settles: the transaction commits, or fails and is rolled back;
\* last records that the batch of req had settled before
RivalSettle ==
  /\ rival.pc = "batch"
  /\ \E settled \in {"resolved", "rejected", "resolved with failure"} :
       /\ rival' = [rival EXCEPT
                      !.pc = "done", !.settled = settled,
                      !.success = IF updateOrderResult(settled) THEN "true" ELSE "false",
                      !.last = req.pc = "done"]
       /\ IF settled # "resolved" THEN groups' = groups /\ sites' = sites
          ELSE IF rival.path = "group-orders"
               THEN groups' = ApplyBatch(groups, rival.items) /\ sites' = sites
               ELSE sites' = ApplyBatch(sites, rival.items) /\ groups' = groups
  /\ UNCHANGED <<env, now, tablesExist, configs, req, tk, siteGroup, seq, imp,
                 client, app>>

\* both responses have been delivered
RaceFinish ==
  /\ req.pc = "done"
  /\ rival.pc # "batch"
  /\ req' = Idle
  /\ rival' = NoRival
  /\ UNCHANGED <<env, now, tablesExist, groups, sites, configs, tk, siteGroup,
                 seq, imp, client, app>>

NextRace ==
  \/ RaceFetch
  \/ RaceHandler
  \/ BatchCommit
  \/ BatchReject
  \/ BatchResolveFailed
  \/ RivalCall
  \/ RivalSettle
  \/ RaceFinish

SpecRace == InitRace /\ [][NextRace]_vars

\* both calls were for the same table and have returned
BothReturned ==
  /\ req.pc = "done" /\ req.settled # "none"
  /\ rival.pc = "done"
  /\ req.path = rival.path

\* C21: when two reorder requests for the same table race and both succeed,
\* every id listed in both has the order_num of the batch that committed last,
\* and an id listed in only one has that request's value: the statements of the
\* two batches are never interleaved.
C21_LastWriteWins ==
  (BothReturned /\ req.success = "true" /\ rival.success = "true") =>
    LET later == IF rival.last THEN rival.items ELSE req.items
        earlier == IF rival.last THEN req.items ELSE rival.items
        t == TableOf(req)
    IN  \A id \in DOMAIN t :
          /\ id \in ListedIds(later) => t[id] = Supplied(later, id)
          /\ id \in ListedIds(earlier) \ ListedIds(later) =>
               t[id] = Supplied(earlier, id)


(***************************************************************************)
(* importData: the statements it runs one after the other, outside any     *)
(* transaction, and the error any of them can raise.                       *)
(***************************************************************************)
TitleKey == "site.title"

\* the groups of a snapshot: rows with distinct ids, in any order, with any
\* order_num; its sites name groups of the snapshot
\* (ImportCall)
SnapshotGroups ==
  {g \in SeqsUpTo([id : Ids, order_num : Orders], MaxId) :
     \A i, j \in 1..Len(g) : i # j => g[i].id # g[j].id}

SnapshotConfigs ==
  { <<>>, [k \in {TitleKey} |-> "x"],
    [k \in {TitleKey, InitFlag} |-> IF k = InitFlag THEN "false" ELSE "x"] }

Snapshots ==
  {Snapshot(g, st, c) : g \in SnapshotGroups, st \in SeqsUpTo([group_id : Ids, order_num : {0}], MaxItems), c \in SnapshotConfigs}

\* getGroups: SELECT ... FROM groups ORDER BY order_num; rows of equal
\* order_num come in an order the statement does not fix
getGroups(table) ==
  {l \in [1..Cardinality(DOMAIN table) -> DOMAIN table] :
     /\ \A i, j \in DOMAIN l : i # j => l[i] # l[j]
     /\ \A i, j \in DOMAIN l : i < j => table[l[i]] <= table[l[j]]}

\* INSERT INTO t ... RETURNING id: the row gets the id after the largest used
Insert(table, id, value) ==
  [i \in DOMAIN table \cup {id} |-> IF i = id THEN value ELSE table[i]]

\* groupMap after data.groups.forEach((oldGroup, index) => ...)
GroupMapOf(oldGroups, newGroups) ==
  LET mapped == {i \in 1..Len(oldGroups) : oldGroups[i].id # 0 /\ i <= Len(newGroups)}
  IN  [old \in {oldGroups[i].id : i \in mapped} |->
         newGroups[CHOOSE i \in mapped :
                     /\ oldGroups[i].id = old
                     /\ \A j \in mapped : oldGroups[j].id = old => j <= i]]

\* groupMap.get(site.group_id) || site.group_id
NewGroupId(groupMap, groupId) ==
  IF groupId \in DOMAIN groupMap THEN groupMap[groupId] ELSE groupId

InitImport ==
  /\ env = Environment(Unset, Unset, Unset, Unset)
  /\ now = 0
  /\ PopulatedDb
  /\ req = Idle
  /\ tk = NoToken
  /\ Elsewhere

\* importData(data) is called
ImportCall ==
  /\ imp.pc = "idle"
  /\ \E data \in Snapshots :
       /\ \A i \in 1..Len(data.sites) :
            \E j \in 1..Len(data.groups) : data.groups[j].id = data.sites[i].group_id
       /\ imp' = [NoImport EXCEPT !.pc = "delete sites", !.data = data,
                                  !.before = Stored(groups, sites, siteGroup, configs)]
  /\ UNCHANGED <<env, now, tablesExist, groups, sites, configs, req, tk, rival,
                 siteGroup, seq, client, app>>

\* DELETE FROM sites
ImportDeleteSites ==
  /\ imp.pc = "delete sites"
  /\ sites' = <<>>
  /\ siteGroup' = <<>>
  /\ imp' = [imp EXCEPT !.pc = "delete groups"]
  /\ UNCHANGED <<env, now, tablesExist, groups, configs, req, tk, rival, seq,
                 client, app>>

\* DELETE FROM groups
ImportDeleteGroups ==
  /\ imp.pc = "delete groups"
  /\ groups' = <<>>
  /\ imp' = [imp EXCEPT !.pc = "create groups"]
  /\ UNCHANGED <<env, now, tablesExist, sites, configs, req, tk, rival,
                 siteGroup, seq, client, app>>

\* createGroup for the next group of data.groups
ImportCreateGroup ==
  /\ imp.pc = "create groups"
  /\ Len(imp.made) < Len(imp.data.groups)
  /\ LET id == seq.groups + 1
         group == imp.data.groups[Len(imp.made) + 1]
     IN  /\ groups' = Insert(groups, id, group.order_num)
         /\ seq' = [seq EXCEPT !.groups = id]
         /\ imp' = [imp EXCEPT !.made = Append(@, id)]
  /\ UNCHANGED <<env, now, tablesExist, sites, configs, req, tk, rival,
                 siteGroup, client, app>>

\* getGroups(), and the map from old ids to new ids built from it by position
ImportMapGroups ==
  /\ imp.pc = "create groups"
  /\ Len(imp.made) = Len(imp.data.groups)
  /\ \E newGroups \in getGroups(groups) :
       imp' = [imp EXCEPT !.pc = "create sites",
                          !.groupMap = GroupMapOf(imp.data.groups, newGroups)]
  /\ UNCHANGED <<env, now, tablesExist, groups, sites, configs, req, tk, rival,
                 siteGroup, seq, client, app>>

\* createSite for the next site of data.sites
ImportCreateSite ==
  /\ imp.pc = "create sites"
  /\ Len(imp.placed) < Len(imp.data.sites)
  /\ LET id == seq.sites + 1
         site == imp.data.sites[Len(imp.placed) + 1]
     IN  /\ sites' = Insert(sites, id, site.order_num)
         /\ siteGroup' = Insert(siteGroup, id, NewGroupId(imp.groupMap, site.group_id))
         /\ seq' = [seq EXCEPT !.sites = id]
         /\ imp' = [imp EXCEPT !.placed = Append(@, id)]
  /\ UNCHANGED <<env, now, tablesExist, groups, configs, req, tk, rival,
                 client, app>>

\* setConfig for every entry of data.configs but DB_INITIALIZED, each of which
\* stores its value or fails and returns false unnoticed; importData returns true
ImportSetConfigs ==
  /\ imp.pc = "create sites"
  /\ Len(imp.placed) = Len(imp.data.sites)
  /\ \E stored \in SUBSET (DOMAIN imp.data.configs \ {InitFlag}) :
       configs' = [k \in DOMAIN configs \cup stored |->
                     IF k \in stored THEN imp.data.configs[k] ELSE configs[k]]
  /\ imp' = [imp EXCEPT !.pc = "done", !.result = "true"]
  /\ UNCHANGED <<env, now, tablesExist, groups, sites, req, tk, rival,
                 siteGroup, seq, client, app>>

\* a statement of the call raises: catch { return false }
ImportThrow ==
  /\ imp.pc \in {"delete sites", "delete groups", "create groups", "create sites"}
  /\ imp' = [imp EXCEPT !.pc = "done", !.result = "false"]
  /\ UNCHANGED <<env, now, tablesExist, groups, sites, configs, req, tk, rival,
                 siteGroup, seq, client, app>>

NextImport ==
  \/ ImportCall
  \/ ImportDeleteSites
  \/ ImportDeleteGroups
  \/ ImportCreateGroup
  \/ ImportMapGroups
  \/ ImportCreateSite
  \/ ImportSetConfigs
  \/ ImportThrow

SpecImport == InitImport /\ [][NextImport]_vars

\* C28: importData is all-or-nothing: whenever it returns false the stored
\* groups, sites and configs are exactly as they were before the call.
C28_ImportAllOrNothing ==
  (imp.pc = "done" /\ imp.result = "false") =>
    Stored(groups, sites, siteGroup, configs) = imp.before

\* C29: after a successful import every site belongs to the new group created
\* from its old group, for every ordering of data.groups and every assignment
\* of order_num values.
C29_MembershipPreserved ==
  (imp.pc = "done" /\ imp.result = "true") =>
    \A k \in 1..Len(imp.data.sites) :
      \A j \in 1..Len(imp.data.groups) :
        imp.data.groups[j].id = imp.data.sites[k].group_id =>
          siteGroup[imp.placed[k]] = imp.made[j]


(***************************************************************************)
(* NavigationClient: the token it holds, localStorage, and the requests it *)
(* has sent.  The Worker answers a request from what it carries.           *)
(***************************************************************************)
\* a clearToken that forgets the token in memory only
clearTokenInMemory(c) == [c EXCEPT !.token = <<>>]

setToken(c, token) == [c EXCEPT !.token = token, !.stored = token]

clearToken(c) == [c EXCEPT !.token = <<>>, !.stored = <<>>]

\* the Authorization header request() adds
AuthHeader(c) ==
  IF c.token # <<>> THEN Header(Bearer \o <<SPACE>> \o c.token) ELSE NoHeader

\* the statuses a gated request carrying the header can be answered with: 401
\* from the auth middleware, else 200, or 500 when the handler raises
Statuses(header) ==
  IF Gate(api, header, now).decision = "deny" THEN {401} ELSE {200, 500}

\* request(): the client once the response has arrived; it throws unless the
\* status is 200
request(c, status) ==
  IF status = 401 THEN [clearToken(c) EXCEPT !.denied = TRUE] ELSE c

\* what the login route sends back for a body
LoginReply(data) ==
  IF Len(validateLogin(data)) > 0 THEN LoginResult(FALSE, FALSE, <<>>, "validation failed")
  ELSE login(api, data.username.s, data.password.s, now, now)

\* login(): the client once the response has arrived (a response that is not
\* JSON, or none, is caught)
loggedIn(c, reply) ==
  IF ~reply.threw /\ reply.success /\ Len(reply.token) > 0
  THEN [setToken(c, reply.token) EXCEPT !.granted = TRUE, !.denied = FALSE]
  ELSE c

\* what the login form submits: the right pair, an empty password, a wrong one
ClientLogins ==
  { [username |-> JStr(UserU), password |-> JStr(PassP)],
    [username |-> JStr(UserU), password |-> JStr(<<>>)],
    [username |-> JStr(UserU), password |-> JStr(PassP \o <<SPACE>>)] }

ClientEnvs ==
  { Environment(Unset, Unset, Unset, Unset),
    Environment(SetTo(FalseWord), SetTo(UserU), SetTo(PassP), SetTo(T(<<"s">>))),
    Environment(SetTo(TrueWord), SetTo(UserU), SetTo(PassP), SetTo(T(<<"s">>))) }

InitClient ==
  /\ env \in ClientEnvs
  /\ now = 0
  /\ PopulatedDb
  /\ req = Idle
  /\ tk = NoToken
  /\ Elsewhere

NoBody == [username |-> JUndef, password |-> JUndef]

Sent(kind, body, header) ==
  [kind |-> kind, body |-> body, header |-> header, afterDenial |-> client.denied]

\* login() sends POST login
ClientLogin ==
  /\ Cardinality(client.flight) < MaxFlight
  /\ \E data \in ClientLogins :
       client' = [client EXCEPT !.flight = @ \cup {Sent("login", data, NoHeader)}]
  /\ UNCHANGED <<env, now, tablesExist, groups, sites, configs, req, tk, rival,
                 siteGroup, seq, imp, app>>

\* the answer to a login arrives, or the request fails
ClientLoginAnswered ==
  /\ \E r \in client.flight, arrived \in BOOLEAN :
       /\ r.kind = "login"
       /\ client' = [(IF arrived THEN loggedIn(client, LoginReply(r.body)) ELSE client)
                       EXCEPT !.flight = @ \ {r}]
  /\ UNCHANGED <<env, now, tablesExist, groups, sites, configs, req, tk, rival,
                 siteGroup, seq, imp, app>>

\* request() sends a request to a gated route
ClientRequest ==
  /\ Cardinality(client.flight) < MaxFlight
  /\ client' = [client EXCEPT !.flight = @ \cup
                  {Sent("gated", NoBody, AuthHeader(client))}]
  /\ UNCHANGED <<env, now, tablesExist, groups, sites, configs, req, tk, rival,
                 siteGroup, seq, imp, app>>

\* the answer to a gated request arrives
ClientAnswered ==
  /\ \E r \in client.flight :
       /\ r.kind = "gated"
       /\ \E status \in Statuses(r.header) :
            client' = [request(client, status) EXCEPT !.flight = @ \ {r}]
  /\ UNCHANGED <<env, now, tablesExist, groups, sites, configs, req, tk, rival,
                 siteGroup, seq, imp, app>>

\* logout()
ClientLogout ==
  /\ client' = clearToken(client)
  /\ UNCHANGED <<env, now, tablesExist, groups, sites, configs, req, tk, rival,
                 siteGroup, seq, imp, app>>

\* the page is loaded again: the constructor reads localStorage
ClientReload ==
  /\ client' = [client EXCEPT !.token = client.stored, !.flight = {}]
  /\ UNCHANGED <<env, now, tablesExist, groups, sites, configs, req, tk, rival,
                 siteGroup, seq, imp, app>>

NextClient ==
  \/ ClientLogin
  \/ ClientLoginAnswered
  \/ ClientRequest
  \/ ClientAnswered
  \/ ClientLogout
  \/ ClientReload
  \/ Tick

SpecClient == InitClient /\ [][NextClient]_vars

\* C23: the token in memory always equals the auth_token of localStorage; a
\* token is present only after a login was answered with success and a token;
\* and once a gated request has been answered 401 the token is cleared and
\* every later request carries no Authorization header, until the next
\* successful login.
C23_SessionInvariant ==
  /\ client.token = client.stored
  /\ client.token # <<>> => client.granted
  /\ client.denied => client.token = <<>>
  /\ \A r \in client.flight : r.afterDenial => r.header = NoHeader

\* a token obtained by a login has expired, a request carrying it has been
\* answered 401, and a request sent after that is in flight
C23_Witness ==
  /\ client.granted /\ client.denied
  /\ client.token = <<>> /\ client.stored = <<>>
  /\ \E r \in client.flight : r.kind = "gated" /\ r.afterDenial


(***************************************************************************)
(* The App component and its GroupCards.  A handler runs to its end in one *)
(* step, with the answers the Worker gives to the requests it sends.       *)
(***************************************************************************)
\* a fetchData that leaves the GroupCards mounted while it loads
StillMounted(a) == a

\* a save that leaves sort mode whatever the call returned
leaveSortAnyway(a, ok) ==
  [a EXCEPT !.sortMode = "None", !.currentSortingGroupId = 0, !.last.shown = ~ok]

Pair(a, c) == [app |-> a, client |-> c]

Database(g, st, sg) == [groups |-> g, sites |-> st, siteGroup |-> sg]

\* the main page is rendered (neither the spinner nor the login form), and
\* the GroupCards are
Page(a) ==
  a.pc = "mounted" /\ ~a.isAuthChecking /\ ~(a.isAuthRequired /\ ~a.isAuthenticated)

CardsShown(a) == Page(a) /\ ~a.loading /\ ~a.error /\ a.sortMode # "GroupSort"

GroupIds(gs) == {gs[i].id : i \in 1..Len(gs)}

SitesOf(gs, g) == gs[CHOOSE i \in 1..Len(gs) : gs[i].id = g].sites

\* the render after a handler: a GroupCard that stays mounted keeps its sites
\* state, one that mounts takes group.sites (useState(group.sites))
Rendered(a) ==
  [a EXCEPT !.cards =
     IF CardsShown(a)
     THEN [g \in GroupIds(a.groups) |->
             IF g \in DOMAIN a.cards THEN a.cards[g] ELSE SitesOf(a.groups, g)]
     ELSE <<>>]

\* the render with loading = true: the list of GroupCards is not rendered
Unmounted(a) == [a EXCEPT !.cards = <<>>]

\* what getGroups and getSites(group.id) return for a database
Views(db) ==
  { [i \in 1..Len(gl) |->
       [id |-> gl[i], order_num |-> db.groups[gl[i]],
        sites |-> LET mine == SelectSeq(sl, LAMBDA x : db.siteGroup[x] = gl[i])
                  IN  [k \in 1..Len(mine) |->
                         [id |-> mine[k], order_num |-> db.sites[mine[k]]]]]] :
    gl \in getGroups(db.groups), sl \in getGroups(db.sites) }

\* fetchData, for what the database holds and the status its requests get
fetchData(s, view, status) ==
  LET a1 == Unmounted([s.app EXCEPT !.loading = TRUE, !.error = FALSE,
                                    !.last.asked = TRUE, !.last.fetch = TRUE])
      a2 == IF status = 200 THEN [a1 EXCEPT !.groups = view, !.fetched = view]
            ELSE [a1 EXCEPT !.last.shown = TRUE,
                            !.isAuthRequired = IF status = 401 THEN TRUE ELSE @,
                            !.isAuthenticated = IF status = 401 THEN FALSE ELSE @]
  IN  Pair([a2 EXCEPT !.loading = FALSE], request(s.client, status))

\* the auth middleware turns away what the client sends now
Denied(c) == Gate(api, AuthHeader(c), now).decision = "deny"

\* the status of a request of the App, from what the middleware decided (the
\* requests of one handler that carry the same token get the same decision);
\* the handlers of the Worker answer
StatusesIf(denied) == IF denied THEN {401} ELSE {200}

\* fetchData alone, when the middleware decides denied for the token of s
Fetches(s, db, denied) ==
  {fetchData(s, view, status) : view \in Views(db), status \in StatusesIf(denied)}

\* fetchData followed by fetchConfigs, which catches what getConfigs throws
Loads(s, db, denied) ==
  UNION { { Pair([f.app EXCEPT !.last.asked = TRUE], request(f.client, status2)) :
            status2 \in IF f.client.token = s.client.token THEN StatusesIf(denied)
                        ELSE StatusesIf(Denied(f.client)) } :
          f \in Fetches(s, db, denied) }

\* the end of handleSaveGroupOrder / handleSaveSiteOrder
leaveSort(a, ok) ==
  IF ok THEN [a EXCEPT !.sortMode = "None", !.currentSortingGroupId = 0]
  ELSE [a EXCEPT !.last.shown = TRUE]

\* arrayMove of @dnd-kit/sortable
arrayMove(l, from, to) ==
  LET others == [k \in 1..(Len(l) - 1) |-> IF k < from THEN l[k] ELSE l[k + 1]]
  IN  [k \in 1..Len(l) |->
         IF k < to THEN others[k] ELSE IF k = to THEN l[from] ELSE others[k - 1]]

\* items.map((item, index) => ({ id: item.id, order_num: index }))
OrdersOf(l) == [i \in 1..Len(l) |-> [id |-> l[i].id, order_num |-> i - 1]]

\* the App starts in a browser with or without a stored token
InitApp ==
  /\ env \in ClientEnvs
  /\ now = 0
  /\ PopulatedDb
  /\ req = Idle
  /\ tk = NoToken
  /\ rival = NoRival
  /\ Columns
  /\ imp = NoImport
  /\ client \in {NoClient,
                 [NoClient EXCEPT !.token = HeldToken, !.stored = HeldToken,
                                  !.granted = TRUE]}
  /\ app = NoApp

\* the mount effect: checkAuthStatus(), setSortMode(None),
\* setCurrentSortingGroupId(null)
AppMount ==
  /\ app.pc = "unmounted"
  /\ LET a0 == [app EXCEPT !.pc = "mounted", !.sortMode = "None",
                           !.currentSortingGroupId = 0, !.isAuthChecking = TRUE,
                           !.last = [Last("checkAuthStatus") EXCEPT
                                       !.token = client.token # <<>>]]
         refused(a, c) ==
           Pair([a EXCEPT !.isAuthenticated = FALSE, !.isAuthRequired = TRUE,
                          !.isAuthChecking = FALSE],
                clearToken(c))
     IN  \E r \in
           IF client.token = <<>> THEN {refused(a0, client)}
           ELSE IF Denied(client)
                THEN {refused([a0 EXCEPT !.last.asked = TRUE], request(client, 401))}
                ELSE { Pair([l.app EXCEPT !.isAuthChecking = FALSE], l.client) :
                       l \in Loads(Pair([a0 EXCEPT !.last.asked = TRUE, !.last.ok = TRUE,
                                                   !.admitted = TRUE,
                                                   !.isAuthenticated = TRUE,
                                                   !.isAuthRequired = FALSE],
                                        client),
                                   Database(groups, sites, siteGroup), FALSE) } :
           /\ app' = Rendered(r.app)
           /\ client' = r.client
  /\ UNCHANGED <<env, now, tablesExist, groups, sites, configs, req, tk, rival,
                 siteGroup, seq, imp>>

\* handleLogin: api.login returns the LoginResponse, an object, so that the
\* test of what it returned always takes the branch of a successful login
HandleLogin ==
  /\ app.pc = "mounted" /\ ~app.isAuthChecking
  /\ app.isAuthRequired /\ ~app.isAuthenticated
  /\ \E data \in ClientLogins, arrived \in BOOLEAN :
       LET reply == IF arrived THEN LoginReply(data) ELSE LoginThrew
           done == ~reply.threw /\ reply.success
           a0 == [app EXCEPT !.last = [Last("handleLogin") EXCEPT
                                         !.ok = done, !.asked = TRUE],
                             !.admitted = @ \/ done,
                             !.isAuthenticated = TRUE, !.isAuthRequired = FALSE]
           c0 == loggedIn(client, reply)
       IN  \E l \in Loads(Pair(a0, c0), Database(groups, sites, siteGroup),
                          IF done THEN FALSE ELSE Denied(c0)) :
             /\ app' = Rendered(l.app)
             /\ client' = l.client
  /\ UNCHANGED <<env, now, tablesExist, groups, sites, configs, req, tk, rival,
                 siteGroup, seq, imp>>

HandleLogout ==
  /\ Page(app) /\ app.isAuthenticated /\ app.sortMode = "None"
  /\ client' = clearToken(client)
  /\ app' = Rendered([app EXCEPT !.last = Last("other"),
                                 !.isAuthenticated = FALSE, !.isAuthRequired = TRUE,
                                 !.groups = <<>>, !.error = TRUE])
  /\ UNCHANGED <<env, now, tablesExist, groups, sites, configs, req, tk, rival,
                 siteGroup, seq, imp>>

startGroupSort ==
  /\ Page(app) /\ app.sortMode = "None"
  /\ app' = Rendered([app EXCEPT !.last = Last("other"),
                                 !.sortMode = "GroupSort",
                                 !.currentSortingGroupId = 0])
  /\ UNCHANGED <<env, now, tablesExist, groups, sites, configs, req, tk, rival,
                 siteGroup, seq, imp, client>>

startSiteSort ==
  /\ CardsShown(app) /\ app.sortMode = "None"
  /\ \E g \in DOMAIN app.cards :
       app' = Rendered([app EXCEPT !.last = Last("other"),
                                   !.sortMode = "SiteSort",
                                   !.currentSortingGroupId = g])
  /\ UNCHANGED <<env, now, tablesExist, groups, sites, configs, req, tk, rival,
                 siteGroup, seq, imp, client>>

cancelSort ==
  /\ Page(app) /\ app.sortMode # "None"
  /\ app' = Rendered([app EXCEPT !.last = Last("cancelSort"),
                                 !.sortMode = "None",
                                 !.currentSortingGroupId = 0])
  /\ UNCHANGED <<env, now, tablesExist, groups, sites, configs, req, tk, rival,
                 siteGroup, seq, imp, client>>

\* a group is dragged onto another in group sort mode
handleDragEnd ==
  /\ Page(app) /\ ~app.loading /\ ~app.error /\ app.sortMode = "GroupSort"
  /\ \E from, to \in 1..Len(app.groups) :
       /\ from # to
       /\ app' = Rendered([app EXCEPT !.last = Last("other"),
                                      !.groups = arrayMove(@, from, to)])
  /\ UNCHANGED <<env, now, tablesExist, groups, sites, configs, req, tk, rival,
                 siteGroup, seq, imp, client>>

\* a site is dragged onto another in the GroupCard being sorted
handleSiteDragEnd ==
  /\ CardsShown(app) /\ app.sortMode = "SiteSort"
  /\ app.currentSortingGroupId \in DOMAIN app.cards
  /\ LET g == app.currentSortingGroupId
     IN  \E from, to \in 1..Len(app.cards[g]) :
           /\ from # to
           /\ app' = [app EXCEPT !.last = Last("other"),
                                 !.cards[g] = arrayMove(@, from, to)]
  /\ UNCHANGED <<env, now, tablesExist, groups, sites, configs, req, tk, rival,
                 siteGroup, seq, imp, client>>

\* handleSaveGroupOrder / handleSaveSiteOrder for the orders built from what
\* is shown: the request, the batch of the Worker, fetchData, the end
SaveOrder(name, orders, group) ==
  \E status \in StatusesIf(Denied(client)),
     settled \in {"resolved", "rejected", "resolved with failure"} :
    LET ok == status = 200 /\ updateOrderResult(settled)
        table == IF group THEN groups ELSE sites
        after == IF status = 200 /\ settled = "resolved"
                 THEN ApplyBatch(table, orders) ELSE table
        a0 == [app EXCEPT !.last = [Last(name) EXCEPT !.ok = ok, !.asked = TRUE]]
        s0 == Pair(a0, request(client, status))
    IN  /\ status # 200 => settled = "rejected"
        /\ groups' = IF group THEN after ELSE groups
        /\ sites' = IF group THEN sites ELSE after
        /\ \E f \in IF ok
                    THEN Fetches(s0, Database(groups', sites', siteGroup), FALSE)
                    ELSE {s0} :
             /\ app' = Rendered(leaveSort(f.app, ok))
             /\ client' = f.client

handleSaveGroupOrder ==
  /\ Page(app) /\ app.sortMode = "GroupSort"
  /\ SaveOrder("handleSaveGroupOrder", OrdersOf(app.groups), TRUE)
  /\ UNCHANGED <<env, now, tablesExist, configs, req, tk, rival, siteGroup,
                 seq, imp>>

\* the GroupCard being sorted calls onSaveSiteOrder(group.id, sites)
handleSaveSiteOrder ==
  /\ CardsShown(app) /\ app.sortMode = "SiteSort"
  /\ app.currentSortingGroupId \in DOMAIN app.cards
  /\ SaveOrder("handleSaveSiteOrder",
               OrdersOf(app.cards[app.currentSortingGroupId]), FALSE)
  /\ UNCHANGED <<env, now, tablesExist, configs, req, tk, rival, siteGroup,
                 seq, imp>>

\* handleSiteDelete for a site that is shown (the last of the sites the
\* database started with, as long as it holds them all)
handleSiteDelete ==
  /\ CardsShown(app) /\ app.sortMode = "None"
  /\ DOMAIN sites = Ids
  /\ \E g \in GroupIds(app.groups), status \in StatusesIf(Denied(client)) :
       \E k \in 1..Len(SitesOf(app.groups, g)) :
         LET id == SitesOf(app.groups, g)[k].id
             keep == DOMAIN sites \ {id}
             s0 == Pair([app EXCEPT !.last = [Last("other") EXCEPT
                                                !.asked = TRUE, !.shown = status # 200]],
                        request(client, status))
         IN  /\ id = MaxId
             /\ sites' = IF status = 200 THEN [i \in keep |-> sites[i]] ELSE sites
             /\ siteGroup' = IF status = 200 THEN [i \in keep |-> siteGroup[i]]
                             ELSE siteGroup
             /\ \E f \in IF status = 200
                         THEN Fetches(s0, Database(groups, sites', siteGroup'), FALSE)
                         ELSE {s0} :
                  /\ app' = Rendered(f.app)
                  /\ client' = f.client
  /\ UNCHANGED <<env, now, tablesExist, groups, configs, req, tk, rival, seq, imp>>

\* handleCreateSite for the site prepared by handleOpenAddSite(groupId) (once,
\* after a site was deleted)
handleCreateSite ==
  /\ CardsShown(app) /\ app.sortMode = "None"
  /\ seq.sites <= MaxId /\ Cardinality(DOMAIN sites) < MaxId
  /\ \E g \in GroupIds(app.groups), status \in StatusesIf(Denied(client)) :
       LET had == SitesOf(app.groups, g)
           orderNum == IF Len(had) = 0 THEN 0
                       ELSE 1 + CHOOSE n \in {had[i].order_num : i \in 1..Len(had)} :
                                  \A i \in 1..Len(had) : had[i].order_num <= n
           id == seq.sites + 1
           s0 == Pair([app EXCEPT !.last = [Last("other") EXCEPT
                                              !.asked = TRUE, !.shown = status # 200]],
                      request(client, status))
       IN  /\ g \in DOMAIN groups
           /\ sites' = IF status = 200 THEN Insert(sites, id, orderNum) ELSE sites
           /\ siteGroup' = IF status = 200 THEN Insert(siteGroup, id, g) ELSE siteGroup
           /\ seq' = IF status = 200 THEN [seq EXCEPT !.sites = id] ELSE seq
           /\ \E f \in IF status = 200
                       THEN Fetches(s0, Database(groups, sites', siteGroup'), FALSE)
                       ELSE {s0} :
                /\ app' = Rendered(f.app)
                /\ client' = f.client
  /\ UNCHANGED <<env, now, tablesExist, groups, configs, req, tk, rival, imp>>

\* the lifetime of the tokens issued so far passes
TokenExpires ==
  /\ now = 0
  /\ now' = TokenLifetime
  /\ UNCHANGED <<env, tablesExist, groups, sites, configs, req, tk, rest>>

\* start-up, login, logout and the edits of a logged-in user
NextApp ==
  \/ AppMount
  \/ HandleLogin
  \/ HandleLogout
  \/ handleSiteDelete
  \/ handleCreateSite
  \/ TokenExpires

SpecApp == InitApp /\ [][NextApp]_vars

\* sorting, for a user who holds a token the Worker accepts until it expires
InitSort ==
  /\ env = Environment(SetTo(TrueWord), SetTo(UserU), SetTo(PassP), SetTo(T(<<"s">>)))
  /\ now = 0
  /\ PopulatedDb
  /\ req = Idle
  /\ tk = NoToken
  /\ rival = NoRival
  /\ Columns
  /\ imp = NoImport
  /\ client = [NoClient EXCEPT !.token = HeldToken, !.stored = HeldToken,
                               !.granted = TRUE]
  /\ app = NoApp

NextSort ==
  \/ AppMount
  \/ startGroupSort
  \/ startSiteSort
  \/ cancelSort
  \/ handleDragEnd
  \/ handleSiteDragEnd
  \/ handleSaveGroupOrder
  \/ handleSaveSiteOrder
  \/ handleSiteDelete
  \/ handleCreateSite
  \/ TokenExpires

SpecSort == InitSort /\ [][NextSort]_vars


\* the handler of that name has run in the step
Ran(name) == app'.last.name = name /\ app' # app

\* the order of the ids of a list of groups or sites
IdsOf(l) == [i \in 1..Len(l) |-> l[i].id]

\* C24: for a client without a stored token the start-up check ends in the
\* login-required state without a request being sent, whether or not the
\* server has auth enabled; and group and config data are fetched only after
\* checkAuthStatus has returned true or a login has succeeded.
C24_StartupAndFetch ==
  /\ (app.last.name = "checkAuthStatus" /\ ~app.last.token) =>
       /\ app.isAuthRequired /\ ~app.isAuthenticated /\ ~app.isAuthChecking
       /\ ~app.last.asked
  /\ app.last.fetch => app.admitted

\* C25: saving a sort leaves sort mode only on success: when updateGroupOrder /
\* updateSiteOrder returns false or throws, sortMode and currentSortingGroupId
\* keep their values and an error is shown; currentSortingGroupId is non-null
\* only while sortMode is SiteSort.
C25_SaveLeavesSortOnSuccess ==
  [][ /\ (Ran("handleSaveGroupOrder") \/ Ran("handleSaveSiteOrder")) =>
           IF app'.last.ok
           THEN app'.sortMode = "None" /\ app'.currentSortingGroupId = 0
           ELSE /\ app'.sortMode = app.sortMode
                /\ app'.currentSortingGroupId = app.currentSortingGroupId
                /\ app'.last.shown
      /\ app'.currentSortingGroupId # 0 => app'.sortMode = "SiteSort"
    ]_vars

\* a save of a site order has failed: the App is still sorting that group
C25_Witness ==
  /\ app.last.name = "handleSaveSiteOrder"
  /\ ~app.last.ok /\ app.last.shown
  /\ app.sortMode = "SiteSort" /\ app.currentSortingGroupId # 0

\* C26: cancelSort discards unsaved reordering: after it the groups are shown
\* in the order last fetched from the server, and no reorder request is sent.
C26_CancelDiscards ==
  app.last.name = "cancelSort" =>
    /\ IdsOf(app.groups) = IdsOf(app.fetched)
    /\ ~app.last.asked

\* C27: the reorder request of a site sort (the orders handleSaveSiteOrder
\* builds from the sites of the GroupCard being sorted) lists exactly the ids
\* of the sites the group had at the last fetch, each once, with order_num
\* 0..n-1 in the order displayed, also after sites were added or deleted or a
\* sort of the group was cancelled.
C27_SiteOrderRequest ==
  [][ Ran("handleSaveSiteOrder") =>
        LET g == app.currentSortingGroupId
            shown == app.cards[g]
            orders == OrdersOf(shown)
            had == SitesOf(app.fetched, g)
        IN  /\ g \in GroupIds(app.fetched)
            /\ Len(orders) = Len(had)
            /\ {orders[i].id : i \in 1..Len(orders)} = {had[i].id : i \in 1..Len(had)}
            /\ \A i \in 1..Len(orders) :
                 orders[i].id = shown[i].id /\ orders[i].order_num = i - 1
    ]_vars

\* a site order has been saved for a group that no longer has the sites it
\* started with, in an order other than the fetched one
C27_Witness ==
  /\ app.last.name = "handleSaveSiteOrder" /\ app.last.ok
  /\ \E i \in 1..Len(app.fetched) :
       /\ Len(app.fetched[i].sites) > 1
       /\ {app.fetched[i].sites[k].id : k \in 1..Len(app.fetched[i].sites)} # Ids
       /\ \E k \in 1..(Len(app.fetched[i].sites) - 1) :
            app.fetched[i].sites[k].id > app.fetched[i].sites[k + 1].id

====
